---- MODULE Spec2Model ----
(***************************************************************************)
(* Smart Waste Management System: the route optimizer                      *)
(* (backend/ai/route_optimizer.py) and the fill-rate predictor             *)
(* (backend/ai/predictor.py) over the bins and sensor_logs tables.         *)
(*                                                                         *)
(* Units.  Latitudes and longitudes are integers in 1e-7 degree; distances *)
(* are integers in millimetres (the source's kilometres times 10^6); a     *)
(* weighted score is the source's score times 10^6; a rounded distance is  *)
(* in units of 0.01 km; waste levels are whole percents; a rounded average *)
(* level is in units of 0.01 percent.                                      *)
(***************************************************************************)
EXTENDS Integers, Sequences, FiniteSets, TLC

VARIABLES
    bins_table,        \* the bins table: bin_id -> row
    pc,                \* position of the optimize_route call
    bin_ids,           \* argument: the requested bin ids
    start_location,    \* argument: <<>> (None) or <<lat, lon>>
    bins,              \* local list of kept bins
    current,           \* <<current_lat, current_lon>>
    optimized_route,   \* stops appended so far
    remaining_bins,    \* the pool still to visit
    total_distance,    \* running sum of hop distances (millimetres)
    result,            \* the returned dict
    saved,             \* an earlier finished call: its arguments and result
    score_level,       \* argument of a get_bin_priority_score call
    score_value,       \* its return value, NULL before the call
    sensor_logs,       \* the sensor_logs table, in insertion order
    fill_pc,           \* position of the get_fill_rate call
    fill_bin_id,       \* argument: the bin asked about
    fill_query_ok,     \* whether the sensor_logs query succeeded
    fill_result,       \* what get_fill_rate returned (or raised)
    ttf_level,         \* argument current_level of predict_time_to_full
    ttf_rate,          \* argument fill_rate of predict_time_to_full
    ttf_hours,         \* what predict_time_to_full returned (or raised)
    threshold_hours,   \* argument of predict_bins_needing_collection
    all_bins,          \* the rows get_all_bins gave it, in order
    predictions,       \* the list it returned
    predict_pc,        \* position of the predict_bins_needing_collection call
    bins_to_collect,   \* what get_optimal_collection_bins returned
    collect_max_bins,  \* its argument max_bins, NULL before the call
    zone_pc,           \* position of the by-zone / daily routes call
    zone_args,         \* the by-zone / daily routes call and its arguments
    zone_result,       \* what optimize_route_by_zone or create_daily_routes returned
    alerts,            \* the alerts table, in insertion order
    routes,            \* the routes table with each route's route_bins
    collection_logs,   \* the collection_logs table, in insertion order
    sim_pc,            \* position of the update_all_bins call
    sim_queue,         \* rows of its get_all_bins result still to visit
    sim_start,         \* the stored data as the running tick found it
    users,             \* the users table
    waste_reports,     \* the waste_reports table, in insertion order
    session,           \* the Flask session of the one browser: key -> value
    request,           \* the last request: its endpoint and arguments
    response           \* the response to the last request, and its handler

route_vars == <<pc, bin_ids, start_location, bins, current, optimized_route,
                remaining_bins, total_distance, result>>

score_vars == <<score_level, score_value>>

fill_vars == <<sensor_logs, fill_pc, fill_bin_id, fill_query_ok, fill_result>>

time_vars == <<ttf_level, ttf_rate, ttf_hours>>

predict_vars == <<threshold_hours, all_bins, predictions, predict_pc,
                  bins_to_collect, collect_max_bins>>

zone_vars == <<zone_pc, zone_args, zone_result>>

\* Stored data: the tables the operations read.
stored == <<bins_table, sensor_logs, alerts, routes>>

sim_vars == <<collection_logs, sim_pc, sim_queue, sim_start>>

web_vars == <<users, waste_reports, session, request, response>>

vars == <<bins_table, route_vars, saved, score_vars, fill_vars, time_vars,
          predict_vars, zone_vars, alerts, routes, sim_vars, web_vars>>

-----------------------------------------------------------------------------
(* Bounds of the model.                                                    *)

MaxReq == 3            \* longest requested bin-id list
MaxRepeatReq == 2      \* longest requested list when calls are repeated
LevelPad == 5          \* waste levels tried below 0 and above 100
MaxLogs == 3           \* most sensor logs stored for the bin under study
MaxLoggedBins == 3     \* bins 1..MaxLoggedBins have stored logs when predicting
MaxStored == 2         \* most rows the writers add to sensor_logs and routes
MaxSensorLogs == 4     \* a tick starts while fewer sensor logs are stored
MaxCollections == 1    \* most simulated collections
MaxAlerts == 2         \* the web handlers raise alerts while fewer are stored
MaxReports == 3        \* most rows of waste_reports

-----------------------------------------------------------------------------
(* Stored data.                                                            *)

\* SQL NULL / Python None in a numeric column: outside every column's range.
NULL == 0 - 2000000000

\* A column value that is a text float() cannot read: outside every column's
\* range as well.
MALFORMED == 0 - 1999999999

\* Python truthiness of a column value: None and 0 are both falsy; a
\* non-empty text is truthy.
Truthy(v) == v # NULL /\ v # 0

\* The coordinate pairs of the bins that can be routed and of the depot, and
\* the value of calculate_distance (haversine, R = 6371 km) between each two
\* of them, in millimetres.  A bin with a zero coordinate is never kept (line
\* 91), so no distance to it is ever computed.
Points ==
  << <<286000000, 772000000>>,
     <<286074159, 771946519>>,
     <<286447324, 772014389>>,
     <<286000400, 772000000>>,
     <<286000800, 772000000>>,
     <<285800000, 772200000>> >>

HaversineMillimetres ==
  << <<0, 975998, 4975998, 4448, 8896, 2959541>>,
     <<975998, 0, 4201950, 972243, 968494, 3926590>>,
     <<4975998, 4201950, 0, 4971552, 4967106, 7422452>>,
     <<4448, 972243, 4971552, 0, 4448, 2962884>>,
     <<8896, 968494, 4967106, 4448, 0, 2966231>>,
     <<2959541, 3926590, 7422452, 2962884, 2966231, 0>> >>

PointIndex(lat, lon) ==
    CHOOSE i \in DOMAIN Points : Points[i] = <<lat, lon>>

calculate_distance(lat1, lon1, lat2, lon2) ==
    HaversineMillimetres[PointIndex(lat1, lon1)][PointIndex(lat2, lon2)]

\* The bin_type column: the four types the simulator knows and one it does
\* not, by bin id.
BinTypes ==
    <<"general", "hazardous", "organic", "recyclable", "general", "organic",
      "glass", "recyclable">>

Row(id, lat, lon, level, zone, status) ==
    [bin_id |-> id, bin_code |-> id, location |-> id, latitude |-> lat,
     longitude |-> lon, waste_level |-> level, bin_type |-> BinTypes[id],
     zone |-> zone, status |-> status]

\* Two contents of the bins table.  Bin 3 stands at the depot, bin 1 at
\* 0.975998 km from it and bin 2 at 4.975998 km; bins 4 and 5 are 4.4 m hops
\* north of the depot;
\* bin 7 lies on the equator (TableA) or the prime meridian (TableB); bin 8
\* has no coordinates (TableA) or no longitude (TableB).
TableA ==
    [id \in 1..8 |->
        CASE id = 1 -> Row(1, 286074159, 771946519, 65, "north", "active")
          [] id = 2 -> Row(2, 286447324, 772014389, 75, "north", "active")
          [] id = 3 -> Row(3, 286000000, 772000000, 95, "north", "active")
          [] id = 4 -> Row(4, 286000400, 772000000, 85, "south", "active")
          [] id = 5 -> Row(5, 286000800, 772000000, 85, "south", "active")
          [] id = 6 -> Row(6, 285800000, 772200000, 55, "south", "inactive")
          [] id = 7 -> Row(7, 0, 772000000, 92, "south", "active")
          [] id = 8 -> Row(8, NULL, NULL, 88, "north", "active")]

TableB ==
    [id \in 1..8 |->
        CASE id = 1 -> Row(1, 286074159, 771946519, 85, "north", "active")
          [] id = 2 -> Row(2, 286447324, 772014389, 82, "north", "active")
          [] id = 3 -> Row(3, 286000000, 772000000, 89, "north", "active")
          [] id = 4 -> Row(4, 286000400, 772000000, 80, "south", "active")
          [] id = 5 -> Row(5, 286000800, 772000000, 61, "south", "active")
          [] id = 6 -> Row(6, 285800000, 772200000, 100, "south", "active")
          [] id = 7 -> Row(7, 286000000, 0, 70, "south", "active")
          [] id = 8 -> Row(8, 286000400, NULL, 90, "north", "inactive")]

BinTables == {TableA, TableB}

\* Ids a caller may request: the stored bins and one id with no row.
RequestIds == 1..9

\* Bin.get_bin_by_id: the row, or NULL when there is none.
HasRow(id) == id \in DOMAIN bins_table

get_bin_by_id(id) == bins_table[id]

-----------------------------------------------------------------------------
(* RouteOptimizer.                                                         *)

\* A score whose top step starts above 90 instead of at 90.
get_bin_priority_score_Above90(waste_level) ==
    IF waste_level > 90 THEN 100
    ELSE IF waste_level >= 80 THEN 80
    ELSE IF waste_level >= 70 THEN 60
    ELSE IF waste_level >= 60 THEN 40
    ELSE 20

\* Lines 56-70.
get_bin_priority_score(waste_level) ==
    IF waste_level >= 90 THEN 100
    ELSE IF waste_level >= 80 THEN 80
    ELSE IF waste_level >= 70 THEN 60
    ELSE IF waste_level >= 60 THEN 40
    ELSE 20

\* The test of line 91 on one requested id.
KeepBin(id) ==
    /\ HasRow(id)
    /\ Truthy(get_bin_by_id(id).latitude)
    /\ Truthy(get_bin_by_id(id).longitude)

\* The dict appended to the local list for a kept bin.
BinEntry(id) ==
    LET bin_data == get_bin_by_id(id) IN
    [bin_id |-> bin_data.bin_id, bin_code |-> bin_data.bin_code,
     location |-> bin_data.location, latitude |-> bin_data.latitude,
     longitude |-> bin_data.longitude, waste_level |-> bin_data.waste_level,
     priority_score |-> get_bin_priority_score(bin_data.waste_level)]

\* Lines 96-99 on a kept bin: float() raises ValueError on a malformed text
\* and TypeError on None, and nothing in optimize_route catches it.
EntryRaises(id) ==
    LET bin_data == get_bin_by_id(id) IN
    \/ bin_data.latitude = MALFORMED
    \/ bin_data.longitude = MALFORMED
    \/ bin_data.waste_level \in {NULL, MALFORMED}

\* The loop of lines 88-100 raises on some requested id.
FetchRaises(ids) ==
    \E i \in DOMAIN ids : KeepBin(ids[i]) /\ EntryRaises(ids[i])

\* The loop of lines 88-100 over the requested ids, in order.
RECURSIVE FetchBins(_)
FetchBins(ids) ==
    IF ids = <<>> THEN <<>>
    ELSE IF KeepBin(Head(ids))
         THEN <<BinEntry(Head(ids))>> \o FetchBins(Tail(ids))
         ELSE FetchBins(Tail(ids))

\* list.sort(key = priority_score, reverse = True): stable, so an entry goes
\* behind every entry whose score is at least its own.
RECURSIVE InsertByPriority(_, _)
InsertByPriority(sorted, b) ==
    IF sorted = <<>> THEN <<b>>
    ELSE IF Head(sorted).priority_score >= b.priority_score
         THEN <<Head(sorted)>> \o InsertByPriority(Tail(sorted), b)
         ELSE <<b>> \o sorted

RECURSIVE SortByPriority(_)
SortByPriority(list) ==
    IF list = <<>> THEN <<>>
    ELSE InsertByPriority(SortByPriority(SubSeq(list, 1, Len(list) - 1)),
                          list[Len(list)])

distance_weight == 5

\* A score that leaves the distance out.
Score_PriorityOnly(bin_data, cur) == 1000000 * bin_data.priority_score

\* Line 138, times 10^6.
Score(bin_data, cur) ==
    1000000 * bin_data.priority_score
    - distance_weight * calculate_distance(cur[1], cur[2],
                                           bin_data.latitude, bin_data.longitude)

\* A scan in which a later bin of equal score replaces the best so far.
Better_LastWins(score, best_score) == score >= best_score

\* Line 140: does a scanned bin replace the best so far?
Better(score, best_score) == score > best_score

\* The scan of lines 128-143: index of best_bin in the pool, 0 for None.
RECURSIVE ScanBest(_, _, _, _)
ScanBest(pool, cur, i, best) ==
    IF i > Len(pool) THEN best
    ELSE IF best = 0 \/ Better(Score(pool[i], cur), Score(pool[best], cur))
         THEN ScanBest(pool, cur, i + 1, i)
         ELSE ScanBest(pool, cur, i + 1, best)

BestIndex(pool, cur) == ScanBest(pool, cur, 1, 0)

\* A removal that takes out every entry equal to the chosen one.
RemoveFirst_Every(list, x) == SelectSeq(list, LAMBDA e : e # x)

\* list.remove(x): drops the first element equal to x.
RECURSIVE RemoveFirst(_, _)
RemoveFirst(list, x) ==
    IF list = <<>> THEN <<>>
    ELSE IF Head(list) = x THEN Tail(list)
    ELSE <<Head(list)>> \o RemoveFirst(Tail(list), x)

\* round(n / d) to the nearest integer, a half going to the even neighbour,
\* for n >= 0 and d > 0 (Python's round).
RoundDiv(n, d) ==
    LET q == n \div d
        r == n % d
    IN  IF 2 * r < d THEN q
        ELSE IF 2 * r > d THEN q + 1
        ELSE IF q % 2 = 0 THEN q ELSE q + 1

\* round(km, 2) of a distance held in millimetres: units of 0.01 km.
Round2(millimetres) == RoundDiv(millimetres, 10000)

RECURSIVE SumLevels(_)
SumLevels(stops) ==
    IF stops = <<>> THEN 0
    ELSE Head(stops).waste_level + SumLevels(Tail(stops))

\* Lines 81-85 and 103-107.
EmptyResult ==
    [bins |-> <<>>, total_distance |-> 0,
     optimization_method |-> "nearest_neighbor"]

NoResult == [optimization_method |-> "pending"]

\* Lines 110-116: the list the loop runs over and the position it starts at.
StartBins(kept, start) ==
    IF start # <<>> THEN kept ELSE SortByPriority(kept)

\* A start position that survives from the previous call.
StartPosition_Stale(kept, start) ==
    IF start # <<>> THEN start
    ELSE IF current # <<>> THEN current
    ELSE <<StartBins(kept, start)[1].latitude,
           StartBins(kept, start)[1].longitude>>

StartPosition(kept, start) ==
    IF start # <<>> THEN start
    ELSE <<StartBins(kept, start)[1].latitude,
           StartBins(kept, start)[1].longitude>>

\* Lines 80-121: the call up to the first test of the while loop.
OptimizeRouteBegin(ids, start) ==
    /\ pc = "idle"
    /\ bin_ids' = ids
    /\ start_location' = start
    /\ optimized_route' = <<>>
    /\ total_distance' = 0
    /\ LET kept == FetchBins(ids) IN
       IF FetchRaises(ids)
       THEN /\ bins' = <<>>
            /\ remaining_bins' = <<>>
            /\ current' = <<>>
            /\ result' = NoResult
            /\ pc' = "raised"
       ELSE IF ids = <<>> \/ kept = <<>>
       THEN /\ bins' = kept
            /\ remaining_bins' = <<>>
            /\ current' = <<>>
            /\ result' = EmptyResult
            /\ pc' = "done"
       ELSE /\ bins' = StartBins(kept, start)
            /\ remaining_bins' = StartBins(kept, start)
            /\ current' = StartPosition(kept, start)
            /\ result' = NoResult
            /\ pc' = "loop"
    /\ UNCHANGED <<sim_vars, web_vars,
                   bins_table, alerts, routes, zone_vars,
                   saved, score_vars, fill_vars, time_vars,
                   predict_vars>>

\* A call of optimize_route with arguments from the given sets; no call is
\* entered while another is running.
optimize_route(requests, starts) ==
    /\ pc = "idle"
    /\ \E ids \in requests, start \in starts : OptimizeRouteBegin(ids, start)

\* A stop numbered by the stops before it, counting from zero.
Stop_CountsFromZero(best_bin, best_distance, route) ==
    [sequence |-> Len(route), bin_id |-> best_bin.bin_id,
     bin_code |-> best_bin.bin_code, location |-> best_bin.location,
     latitude |-> best_bin.latitude, longitude |-> best_bin.longitude,
     waste_level |-> best_bin.waste_level,
     distance_from_previous |-> Round2(best_distance)]

\* Lines 145-156: the stop appended for best_bin.
Stop(best_bin, best_distance, route) ==
    [sequence |-> Len(route) + 1, bin_id |-> best_bin.bin_id,
     bin_code |-> best_bin.bin_code, location |-> best_bin.location,
     latitude |-> best_bin.latitude, longitude |-> best_bin.longitude,
     waste_level |-> best_bin.waste_level,
     distance_from_previous |-> Round2(best_distance)]

\* An accumulation that assigns the hop instead of adding it.
AddHop_Overwrite(total, best_distance) == best_distance

\* Line 158.
AddHop(total, best_distance) == total + best_distance

\* Lines 123-161: one iteration of the while loop.
GreedyStep ==
    /\ pc = "loop"
    /\ remaining_bins # <<>>
    /\ LET best_bin == remaining_bins[BestIndex(remaining_bins, current)]
           best_distance == calculate_distance(current[1], current[2],
                                best_bin.latitude, best_bin.longitude)
       IN  /\ optimized_route' =
                  Append(optimized_route,
                         Stop(best_bin, best_distance, optimized_route))
           /\ total_distance' = AddHop(total_distance, best_distance)
           /\ current' = <<best_bin.latitude, best_bin.longitude>>
           /\ remaining_bins' = RemoveFirst(remaining_bins, best_bin)
    /\ UNCHANGED <<sim_vars, web_vars,
                   bins_table, alerts, routes, zone_vars,
                   pc, bin_ids, start_location, bins, result,
                   saved, score_vars, fill_vars, time_vars, predict_vars>>

\* Lines 163-169.
RouteResult(route, total) ==
    [bins |-> route, total_bins |-> Len(route),
     total_distance |-> Round2(total),
     optimization_method |-> "nearest_neighbor_priority_weighted",
     average_waste_level |->
         IF route # <<>> THEN RoundDiv(100 * SumLevels(route), Len(route))
         ELSE 0]

OptimizeRouteReturn ==
    /\ pc = "loop"
    /\ remaining_bins = <<>>
    /\ result' = RouteResult(optimized_route, total_distance)
    /\ pc' = "done"
    /\ UNCHANGED <<sim_vars, web_vars,
                   bins_table, alerts, routes, zone_vars,
                   bin_ids, start_location, bins, current,
                   optimized_route, remaining_bins, total_distance,
                   saved, score_vars, fill_vars, time_vars, predict_vars>>

-----------------------------------------------------------------------------
(* WasteLevelPredictor.get_fill_rate.                                      *)
(* Timestamps are whole minutes; a fill rate is the fraction num / den     *)
(* percent per hour in lowest terms, den > 0.                              *)

WindowMinutes == 7 * 24 * 60

\* NOW() of the query.
Now == 2 * WindowMinutes

LogRow(id, level, timestamp) ==
    [bin_id |-> id, waste_level |-> level, timestamp |-> timestamp]

RECURSIVE GCD(_, _)
GCD(a, b) == IF b = 0 THEN a ELSE GCD(b, a % b)

\* The number num / den (den > 0) in lowest terms.
Rate(num, den) ==
    LET g == GCD(IF num < 0 THEN 0 - num ELSE num, den) IN
    [kind |-> "value", num |-> num \div g, den |-> den \div g]

Raised == [kind |-> "raise", num |-> 0, den |-> 1]

NoRate == [kind |-> "pending", num |-> 0, den |-> 1]

\* Lines 51, 79 and 87: the default of 2 percent per hour.
DefaultRate == Rate(2, 1)

\* Line 81: the cap of 10 percent per hour.
CapRate == Rate(10, 1)

\* ORDER BY timestamp ASC.
RECURSIVE InsertByTimestamp(_, _)
InsertByTimestamp(sorted, row) ==
    IF sorted = <<>> THEN <<row>>
    ELSE IF Head(sorted).timestamp <= row.timestamp
         THEN <<Head(sorted)>> \o InsertByTimestamp(Tail(sorted), row)
         ELSE <<row>> \o sorted

RECURSIVE SortByTimestamp(_)
SortByTimestamp(rows) ==
    IF rows = <<>> THEN <<>>
    ELSE InsertByTimestamp(SortByTimestamp(SubSeq(rows, 1, Len(rows) - 1)),
                           rows[Len(rows)])

\* The WHERE clause of lines 40-46.
InWindow(row, id) ==
    row.bin_id = id /\ row.timestamp >= Now - WindowMinutes

RECURSIVE SelectLogs(_, _)
SelectLogs(rows, id) ==
    IF rows = <<>> THEN <<>>
    ELSE IF InWindow(Head(rows), id)
         THEN <<Head(rows)>> \o SelectLogs(Tail(rows), id)
         ELSE SelectLogs(Tail(rows), id)

\* Database.execute_query on lines 40-47: the rows, or None when the query
\* fails (models.py lines 84-86).
QueryLogs(id, ok) ==
    [ok |-> ok,
     rows |-> IF ok THEN SortByTimestamp(SelectLogs(sensor_logs, id)) ELSE <<>>]

\* Line 49: `not logs or len(logs) < 2`.
TooFewLogs(logs) == ~logs.ok \/ logs.rows = <<>> \/ Len(logs.rows) < 2

\* float(log['waste_level']) raises on a NULL level.
LevelRaises(rows) == \E i \in DOMAIN rows : rows[i].waste_level = NULL

RECURSIVE SumX(_, _)
SumX(rows, base) ==
    IF rows = <<>> THEN 0
    ELSE (Head(rows).timestamp - base) + SumX(Tail(rows), base)

RECURSIVE SumY(_)
SumY(rows) ==
    IF rows = <<>> THEN 0 ELSE Head(rows).waste_level + SumY(Tail(rows))

RECURSIVE SumXY(_, _)
SumXY(rows, base) ==
    IF rows = <<>> THEN 0
    ELSE (Head(rows).timestamp - base) * Head(rows).waste_level
         + SumXY(Tail(rows), base)

RECURSIVE SumXX(_, _)
SumXX(rows, base) ==
    IF rows = <<>> THEN 0
    ELSE (Head(rows).timestamp - base) * (Head(rows).timestamp - base)
         + SumXX(Tail(rows), base)

\* Lines 58-75: the least-squares slope of level against hours since the
\* first log.  With x in minutes the slope per hour is
\* 60 (n Sxy - Sx Sy) / (n Sxx - Sx Sx); when every x is the same the fit is
\* the minimum-norm one, of slope 0.
FitSlope(rows) ==
    LET base_time == rows[1].timestamp
        n == Len(rows)
        den == n * SumXX(rows, base_time)
               - SumX(rows, base_time) * SumX(rows, base_time)
        num == 60 * (n * SumXY(rows, base_time)
                     - SumX(rows, base_time) * SumY(rows))
    IN  IF den = 0 THEN Rate(0, 1) ELSE Rate(num, den)

\* A clamp that lets a slope of exactly zero through.
ClampRate_ZeroPasses(b) ==
    IF b.num < 0 THEN DefaultRate
    ELSE IF b.num > 10 * b.den THEN CapRate
    ELSE b

\* Lines 77-83.
ClampRate(b) ==
    IF b.num <= 0 THEN DefaultRate
    ELSE IF b.num > 10 * b.den THEN CapRate
    ELSE b

\* A try block whose handler lets the exception through.
FittedRate_Propagates(rows) ==
    IF LevelRaises(rows) THEN Raised ELSE ClampRate(FitSlope(rows))

\* Lines 54-87: the try block and its handler.
FittedRate(rows) ==
    IF LevelRaises(rows) THEN DefaultRate ELSE ClampRate(FitSlope(rows))

\* A guard that measures the length of a failed query's None.
FillRateOf_LenOfNone(logs) ==
    IF ~logs.ok THEN Raised
    ELSE IF Len(logs.rows) < 2 THEN DefaultRate
    ELSE FittedRate(logs.rows)

\* Lines 49-87: the value returned for the queried logs.
FillRateOf(logs) ==
    IF TooFewLogs(logs) THEN DefaultRate ELSE FittedRate(logs.rows)

\* Lines 34-87 as one step.
GetFillRate(id, ok) ==
    /\ fill_pc = "idle"
    /\ fill_bin_id' = id
    /\ fill_query_ok' = ok
    /\ fill_result' = FillRateOf(QueryLogs(id, ok))
    /\ fill_pc' = "done"
    /\ UNCHANGED <<sim_vars, web_vars,
                   bins_table, alerts, routes, zone_vars,
                   route_vars, saved, score_vars, sensor_logs,
                   time_vars, predict_vars>>

\* A division by the fill rate as it was given.
predict_time_to_full_NoSubstitute(current_level, fill_rate) ==
    IF current_level >= 100 THEN Rate(0, 1)
    ELSE IF fill_rate.num = 0 THEN Raised
    ELSE IF fill_rate.num < 0
         THEN Rate((current_level - 100) * fill_rate.den, 0 - fill_rate.num)
         ELSE Rate((100 - current_level) * fill_rate.den, fill_rate.num)

\* predict_time_to_full, lines 89-107: hours until the bin is full, as a
\* fraction in lowest terms.
predict_time_to_full(current_level, fill_rate) ==
    IF current_level >= 100 THEN Rate(0, 1)
    ELSE LET rate == IF fill_rate.num <= 0 THEN DefaultRate ELSE fill_rate
         IN  Rate((100 - current_level) * rate.den, rate.num)

\* A call of predict_time_to_full on its own.
PredictTimeToFull ==
    /\ ttf_hours = NoRate
    /\ ttf_hours' = predict_time_to_full(ttf_level, ttf_rate)
    /\ UNCHANGED <<sim_vars, web_vars,
                   bins_table, alerts, routes, zone_vars,
                   route_vars, saved, score_vars, fill_vars,
                   ttf_level, ttf_rate, predict_vars>>

-----------------------------------------------------------------------------
(* WasteLevelPredictor.predict_bins_needing_collection.                    *)
(* In a prediction current_level is in whole percents, fill_rate and       *)
(* predicted_level_24h in units of 0.01, hours_to_full in units of 0.1.    *)

\* Bin.get_all_bins (models.py lines 157-165): every row, ORDER BY
\* waste_level DESC; rows of equal level come in either order.
RECURSIVE get_all_bins(_)
get_all_bins(ids) ==
    IF ids = {} THEN {<<>>}
    ELSE LET top == {i \in ids : \A j \in ids :
                        bins_table[j].waste_level <= bins_table[i].waste_level}
         IN  UNION {{<<bins_table[i]>> \o rest :
                        rest \in get_all_bins(ids \ {i})} : i \in top}

\* Line 129: get_fill_rate over the stored logs of the bin.
get_fill_rate(bin_id) == FillRateOf(QueryLogs(bin_id, TRUE))

\* hours <= threshold_hours for hours held as a fraction.
WithinThreshold(hours, threshold) == hours.num <= threshold * hours.den

\* A tiering that looks at the hours before the level.
PriorityOf_HoursFirst(current_level, hours, threshold) ==
    IF WithinThreshold(hours, threshold) THEN "medium"
    ELSE IF current_level >= 90 THEN "critical"
    ELSE IF current_level >= 80 THEN "high"
    ELSE "low"

\* Lines 139-146.
PriorityOf(current_level, hours, threshold) ==
    IF current_level >= 90 THEN "critical"
    ELSE IF current_level >= 80 THEN "high"
    ELSE IF WithinThreshold(hours, threshold) THEN "medium"
    ELSE "low"

\* An inclusion test that lets every active bin in.
NeedsAttention_EveryBin(current_level, hours, threshold) ==
    current_level >= 0 \/ WithinThreshold(hours, threshold)

\* An inclusion test that starts at level 80.
NeedsAttention_From80(current_level, hours, threshold) ==
    current_level >= 80 \/ WithinThreshold(hours, threshold)

\* Line 149.
NeedsAttention(current_level, hours, threshold) ==
    current_level >= 70 \/ WithinThreshold(hours, threshold)

\* A flag that looks at the hours only.
NeedsCollection_HoursOnly(current_level, hours, threshold) ==
    WithinThreshold(hours, threshold)

\* Line 160.
NeedsCollection(current_level, hours, threshold) ==
    WithinThreshold(hours, threshold) \/ current_level >= 80

\* Lines 135-137 and 158: the level after threshold hours, capped at 100.
PredictedLevel(current_level, fill_rate, threshold) ==
    LET hundredths == RoundDiv(100 * (current_level * fill_rate.den
                                      + fill_rate.num * threshold),
                               fill_rate.den)
    IN  IF hundredths > 10000 THEN 10000 ELSE hundredths

\* Lines 125-163: the prediction appended for one active bin.
Prediction(bin_data, threshold) ==
    LET current_level == bin_data.waste_level
        fill_rate == get_fill_rate(bin_data.bin_id)
        hours_to_full == predict_time_to_full(current_level, fill_rate)
    IN  [bin_id |-> bin_data.bin_id,
         bin_code |-> bin_data.bin_code,
         location |-> bin_data.location,
         zone |-> bin_data.zone,
         current_level |-> current_level,
         fill_rate |-> RoundDiv(100 * fill_rate.num, fill_rate.den),
         hours_to_full |-> RoundDiv(10 * hours_to_full.num, hours_to_full.den),
         predicted_level_24h |->
             PredictedLevel(current_level, fill_rate, threshold),
         priority |-> PriorityOf(current_level, hours_to_full, threshold),
         needs_collection |->
             NeedsCollection(current_level, hours_to_full, threshold),
         latitude |-> IF Truthy(bin_data.latitude)
                      THEN bin_data.latitude ELSE NULL,
         longitude |-> IF Truthy(bin_data.longitude)
                       THEN bin_data.longitude ELSE NULL]

\* Lines 121-163: the loop over all_bins.
RECURSIVE CollectPredictions(_, _)
CollectPredictions(rows, threshold) ==
    IF rows = <<>> THEN <<>>
    ELSE LET bin_data == Head(rows)
             rest == CollectPredictions(Tail(rows), threshold)
             hours == predict_time_to_full(bin_data.waste_level,
                                           get_fill_rate(bin_data.bin_id))
         IN  IF bin_data.status # "active" THEN rest
             ELSE IF NeedsAttention(bin_data.waste_level, hours, threshold)
                  THEN <<Prediction(bin_data, threshold)>> \o rest
                  ELSE rest

\* Line 166.
priority_order(priority) ==
    CASE priority = "critical" -> 0
      [] priority = "high" -> 1
      [] priority = "medium" -> 2
      [] priority = "low" -> 3

\* Line 167: the sort key (priority_order, -current_level) compared.
KeyBefore(a, b) ==
    \/ priority_order(a.priority) < priority_order(b.priority)
    \/ /\ priority_order(a.priority) = priority_order(b.priority)
       /\ a.current_level > b.current_level

\* An insertion that puts a prediction before the earlier ones of equal key.
RECURSIVE InsertPrediction_BeforeEquals(_, _)
InsertPrediction_BeforeEquals(sorted, p) ==
    IF sorted = <<>> THEN <<p>>
    ELSE IF KeyBefore(Head(sorted), p)
         THEN <<Head(sorted)>> \o InsertPrediction_BeforeEquals(Tail(sorted), p)
         ELSE <<p>> \o sorted

\* Line 167: list.sort is stable, so a prediction goes after the earlier
\* ones whose key is not greater.
RECURSIVE InsertPrediction(_, _)
InsertPrediction(sorted, p) ==
    IF sorted = <<>> THEN <<p>>
    ELSE IF ~KeyBefore(p, Head(sorted))
         THEN <<Head(sorted)>> \o InsertPrediction(Tail(sorted), p)
         ELSE <<p>> \o sorted

RECURSIVE SortPredictions(_)
SortPredictions(list) ==
    IF list = <<>> THEN <<>>
    ELSE InsertPrediction(SortPredictions(SubSeq(list, 1, Len(list) - 1)),
                          list[Len(list)])

\* Lines 109-169 as one step.
PredictBinsNeedingCollection(threshold) ==
    /\ predict_pc = "idle"
    /\ threshold_hours' = threshold
    /\ \E rows \in get_all_bins(DOMAIN bins_table) :
           /\ all_bins' = rows
           /\ predictions' = SortPredictions(CollectPredictions(rows, threshold))
    /\ predict_pc' = "done"
    /\ UNCHANGED <<bins_to_collect, collect_max_bins>>
    /\ UNCHANGED <<sim_vars, web_vars,
                   bins_table, alerts, routes, zone_vars,
                   route_vars, saved, score_vars, fill_vars,
                   time_vars>>

\* A selection that is never cut.
get_optimal_collection_bins_NoLimit(rows, max_bins) ==
    SelectSeq(SortPredictions(CollectPredictions(rows, 24)),
              LAMBDA p : p.needs_collection)

\* get_optimal_collection_bins, lines 171-186: the predictions of a
\* 24-hour look-ahead that need collection, cut to max_bins.
get_optimal_collection_bins(rows, max_bins) ==
    LET bins_needing == SelectSeq(SortPredictions(CollectPredictions(rows, 24)),
                                  LAMBDA p : p.needs_collection)
    IN  SubSeq(bins_needing, 1,
               IF Len(bins_needing) < max_bins THEN Len(bins_needing)
               ELSE max_bins)

GetOptimalCollectionBins(max_bins) ==
    /\ predict_pc = "idle"
    /\ threshold_hours' = 24
    /\ \E rows \in get_all_bins(DOMAIN bins_table) :
           /\ all_bins' = rows
           /\ predictions' = SortPredictions(CollectPredictions(rows, 24))
           /\ bins_to_collect' = get_optimal_collection_bins(rows, max_bins)
    /\ collect_max_bins' = max_bins
    /\ predict_pc' = "done"
    /\ UNCHANGED <<sim_vars, web_vars,
                   bins_table, alerts, routes, zone_vars, route_vars, saved,
                   score_vars, fill_vars, time_vars>>

-----------------------------------------------------------------------------
(* RouteOptimizer.optimize_route_by_zone and create_daily_routes.          *)

\* Lines 123-169 run to the end: the loop of GreedyStep and the return.
RECURSIVE GreedyLoop(_, _, _, _)
GreedyLoop(pool, cur, route, total) ==
    IF pool = <<>> THEN RouteResult(route, total)
    ELSE LET best_bin == pool[BestIndex(pool, cur)]
             best_distance == calculate_distance(cur[1], cur[2],
                                  best_bin.latitude, best_bin.longitude)
         IN  GreedyLoop(RemoveFirst(pool, best_bin),
                        <<best_bin.latitude, best_bin.longitude>>,
                        Append(route, Stop(best_bin, best_distance, route)),
                        AddHop(total, best_distance))

\* optimize_route(bin_ids) without a start location, as a value.
RouteOf(ids) ==
    LET kept == FetchBins(ids) IN
    IF ids = <<>> \/ kept = <<>> THEN EmptyResult
    ELSE GreedyLoop(StartBins(kept, <<>>), StartPosition(kept, <<>>), <<>>, 0)

\* A query that forgets the status of the bins.
ZoneBins_AnyStatus(zone) ==
    {id \in DOMAIN bins_table :
        /\ bins_table[id].zone = zone
        /\ bins_table[id].waste_level >= 60}

\* The query of lines 180-187: the active bins of the zone at level 60 or
\* more.
ZoneBins(zone) ==
    {id \in DOMAIN bins_table :
        /\ bins_table[id].zone = zone
        /\ bins_table[id].status = "active"
        /\ bins_table[id].waste_level >= 60}

\* ORDER BY waste_level DESC LIMIT max_bins: the ids in each order the query
\* may give them.
ZoneQuery(zone, max_bins) ==
    {[i \in 1..(IF Len(rows) < max_bins THEN Len(rows) ELSE max_bins)
         |-> rows[i].bin_id] : rows \in get_all_bins(ZoneBins(zone))}

WithZone(route, zone) ==
    [k \in DOMAIN route \cup {"zone"} |-> IF k = "zone" THEN zone ELSE route[k]]

\* optimize_route_by_zone, lines 189-200, on the ids the query gave.
ZoneRoute(ids, zone) ==
    IF ids = <<>> THEN [bins |-> <<>>, total_distance |-> 0, zone |-> zone]
    ELSE WithZone(RouteOf(ids), zone)

\* A by-zone call that also saves the route it built, as create_route does.
OptimizeRouteByZone_SavesRoute(zone, max_bins) ==
    /\ zone_pc = "idle"
    /\ zone_args' = [call |-> "optimize_route_by_zone", zones |-> <<zone>>,
                     max_bins |-> max_bins]
    /\ \E ids \in ZoneQuery(zone, max_bins) :
           /\ zone_result' = ZoneRoute(ids, zone)
           /\ routes' = Append(routes, [total_bins |-> Len(ids),
                                        status |-> "planned", bins |-> ids])
    /\ zone_pc' = "done"
    /\ UNCHANGED <<sim_vars, web_vars,
                   bins_table, alerts, route_vars, saved, score_vars,
                   fill_vars, time_vars, predict_vars>>

OptimizeRouteByZone(zone, max_bins) ==
    /\ zone_pc = "idle"
    /\ zone_args' = [call |-> "optimize_route_by_zone", zones |-> <<zone>>,
                     max_bins |-> max_bins]
    /\ \E ids \in ZoneQuery(zone, max_bins) :
           zone_result' = ZoneRoute(ids, zone)
    /\ zone_pc' = "done"
    /\ UNCHANGED <<sim_vars, web_vars,
                   bins_table, alerts, routes, route_vars, saved, score_vars,
                   fill_vars, time_vars, predict_vars>>

\* Line 212: SELECT DISTINCT zone of the active bins, ORDER BY zone.
ZoneNames == <<"north", "south">>

ActiveZones ==
    SelectSeq(ZoneNames,
              LAMBDA z : \E id \in DOMAIN bins_table :
                  bins_table[id].zone = z /\ bins_table[id].status = "active")

\* Lines 216-223: the routes of the zones, in order, that have stops.
RECURSIVE DailyRoutes(_, _)
DailyRoutes(zones, bins_per_route) ==
    IF zones = <<>> THEN {<<>>}
    ELSE {IF ZoneRoute(ids, Head(zones)).bins # <<>>
          THEN <<ZoneRoute(ids, Head(zones))>> \o rest
          ELSE rest :
              ids \in ZoneQuery(Head(zones), bins_per_route),
              rest \in DailyRoutes(Tail(zones), bins_per_route)}

\* create_daily_routes, lines 202-223; zones = <<>> stands for None.
CreateDailyRoutes(zones, bins_per_route) ==
    /\ zone_pc = "idle"
    /\ zone_args' = [call |-> "create_daily_routes",
                     zones |-> IF zones = <<>> THEN ActiveZones ELSE zones,
                     max_bins |-> bins_per_route]
    /\ zone_result' \in DailyRoutes(IF zones = <<>> THEN ActiveZones ELSE zones,
                                     bins_per_route)
    /\ zone_pc' = "done"
    /\ UNCHANGED <<sim_vars, web_vars,
                   bins_table, alerts, routes, route_vars, saved, score_vars,
                   fill_vars, time_vars, predict_vars>>

-----------------------------------------------------------------------------
(* The writers of the stored data.                                         *)

\* Bin.create_full_bin_alert, models.py lines 200-211.
AlertRow(bin_id, waste_level) ==
    [bin_id |-> bin_id, alert_type |-> "full_bin",
     severity |-> IF waste_level >= 90 THEN "critical" ELSE "warning",
     status |-> "active"]

\* An alert step that starts above 80 percent.
update_waste_level_Above80(bin_id, waste_level) ==
    /\ bins_table' =
           IF HasRow(bin_id)
           THEN [bins_table EXCEPT ![bin_id].waste_level = waste_level]
           ELSE bins_table
    /\ alerts' = IF waste_level > 80 /\ HasRow(bin_id)
                  THEN Append(alerts, AlertRow(bin_id, waste_level))
                  ELSE alerts

\* Bin.update_waste_level, models.py lines 185-198: the UPDATE changes the
\* row of the bin if there is one; from 80 percent create_full_bin_alert
\* (lines 200-211) reads the bin back and inserts an alert when it has a row.
update_waste_level(bin_id, waste_level) ==
    /\ bins_table' =
           IF HasRow(bin_id)
           THEN [bins_table EXCEPT ![bin_id].waste_level = waste_level]
           ELSE bins_table
    /\ alerts' = IF waste_level >= 80 /\ HasRow(bin_id)
                  THEN Append(alerts, AlertRow(bin_id, waste_level))
                  ELSE alerts

\* BinSimulator.update_bin_sensor (bin_simulator.py lines 93-127) with the
\* reading it generated: Bin.update_waste_level stores the level and raises
\* an alert from 80 percent, and the reading is logged.
UpdateBinSensor(bin_id, new_level) ==
    /\ HasRow(bin_id)
    /\ bins_table[bin_id].status = "active"
    /\ Len(sensor_logs) + Len(routes) < MaxStored
    /\ update_waste_level(bin_id, new_level)
    /\ sensor_logs' = Append(sensor_logs, LogRow(bin_id, new_level, Now))
    /\ UNCHANGED <<sim_vars, web_vars,
                   routes, route_vars, saved, score_vars, fill_pc, fill_bin_id,
                   fill_query_ok, fill_result, time_vars, predict_vars,
                   zone_vars>>

\* Route.create_route, models.py lines 287-321.
CreateRoute(ids) ==
    /\ Len(sensor_logs) + Len(routes) < MaxStored
    /\ routes' = Append(routes, [total_bins |-> Len(ids), status |-> "planned",
                                 bins |-> ids])
    /\ UNCHANGED <<sim_vars, web_vars,
                   bins_table, alerts, route_vars, saved, score_vars,
                   fill_vars, time_vars, predict_vars, zone_vars>>

-----------------------------------------------------------------------------
(* BinSensorSimulator.                                                     *)
(* Levels are whole percents, which round(.., 2) leaves as they are; the   *)
(* random draws are the whole percents of each range.                      *)

\* bin_simulator.py lines 44-51: the range of an increase by bin type, in
\* hundredths of a percent.
fill_rates(bin_type) ==
    CASE bin_type = "general" -> <<150, 400>>
      [] bin_type = "recyclable" -> <<80, 250>>
      [] bin_type = "organic" -> <<200, 500>>
      [] bin_type = "hazardous" -> <<30, 100>>
      [] OTHER -> <<100, 300>>

\* random.uniform(lo, hi): the whole percents between lo and hi hundredths.
Uniform(lo, hi) == {d \div 100 : d \in {x \in lo..hi : x % 100 = 0}}

\* Lines 53-58: an increase from the range of the type or, one time in
\* twenty, a decrease of 0.5 to 2 percent.
Increases(bin_type) ==
    Uniform(fill_rates(bin_type)[1], fill_rates(bin_type)[2])
        \cup {0 - d : d \in Uniform(50, 200)}

Min(a, b) == IF a <= b THEN a ELSE b

Max(a, b) == IF a >= b THEN a ELSE b

\* A reading bounded above only.
generate_sensor_reading_NoFloor(current_level, increase) ==
    Min(100, current_level + increase)

\* generate_sensor_reading, lines 60-65, for the increase drawn.
generate_sensor_reading(current_level, increase) ==
    Max(0, Min(100, current_level + increase))

\* A sensor update that logs the level it read.
update_bin_sensor_LogsOldLevel(bin_id) ==
    IF ~HasRow(bin_id) \/ get_bin_by_id(bin_id).status # "active"
    THEN UNCHANGED <<bins_table, alerts, sensor_logs>>
    ELSE LET bin_data == get_bin_by_id(bin_id) IN
         \E increase \in Increases(bin_data.bin_type) :
             LET new_level == generate_sensor_reading(bin_data.waste_level,
                                                      increase)
             IN  /\ update_waste_level(bin_id, new_level)
                 /\ sensor_logs' =
                        Append(sensor_logs,
                               LogRow(bin_id, bin_data.waste_level, Now))

\* update_bin_sensor, lines 93-127: nothing for a bin that has no row or is
\* not active; otherwise the new reading is stored and logged.
update_bin_sensor(bin_id) ==
    IF ~HasRow(bin_id) \/ get_bin_by_id(bin_id).status # "active"
    THEN UNCHANGED <<bins_table, alerts, sensor_logs>>
    ELSE LET bin_data == get_bin_by_id(bin_id) IN
         \E increase \in Increases(bin_data.bin_type) :
             LET new_level == generate_sensor_reading(bin_data.waste_level,
                                                      increase)
             IN  /\ update_waste_level(bin_id, new_level)
                 /\ sensor_logs' =
                        Append(sensor_logs, LogRow(bin_id, new_level, Now))

NoTick == [bins |-> <<>>, logs |-> 0, alerts |-> 0, collections |-> 0]

\* update_all_bins, lines 133-140: the rows are fetched once.
UpdateAllBinsBegin ==
    /\ sim_pc # "tick"
    /\ Len(sensor_logs) < MaxSensorLogs
    /\ sim_queue' \in get_all_bins(DOMAIN bins_table)
    /\ sim_start' = [bins |-> bins_table, logs |-> Len(sensor_logs),
                     alerts |-> Len(alerts),
                     collections |-> Len(collection_logs)]
    /\ sim_pc' = "tick"
    /\ UNCHANGED <<bins_table, alerts, routes, sensor_logs, collection_logs,
                   web_vars, route_vars, saved, score_vars, fill_pc,
                   fill_bin_id, fill_query_ok, fill_result, time_vars,
                   predict_vars, zone_vars>>

\* Lines 142-144: one iteration of the loop over the fetched rows.
UpdateAllBinsStep ==
    /\ sim_pc = "tick"
    /\ sim_queue # <<>>
    /\ LET bin_data == Head(sim_queue) IN
           IF bin_data.status = "active"
           THEN update_bin_sensor(bin_data.bin_id)
           ELSE UNCHANGED <<bins_table, alerts, sensor_logs>>
    /\ sim_queue' = Tail(sim_queue)
    /\ UNCHANGED <<routes, collection_logs, sim_pc, sim_start,
                   web_vars, route_vars, saved, score_vars, fill_pc,
                   fill_bin_id, fill_query_ok, fill_result, time_vars,
                   predict_vars, zone_vars>>

\* Lines 146-147: the loop is over.
UpdateAllBinsReturn ==
    /\ sim_pc = "tick"
    /\ sim_queue = <<>>
    /\ sim_pc' = "done"
    /\ UNCHANGED <<bins_table, alerts, routes, sensor_logs, collection_logs,
                   sim_queue, sim_start,
                   web_vars, route_vars, saved, score_vars, fill_pc,
                   fill_bin_id, fill_query_ok, fill_result, time_vars,
                   predict_vars, zone_vars>>

\* random.uniform(2.0, 8.0), line 164.
AfterLevels == Uniform(200, 800)

\* simulate_collection, lines 149-183, for the residual level drawn: nothing
\* for a bin without a row; the collection_logs row keeps the columns the
\* levels go to.
SimulateCollection(bin_id, after_level) ==
    /\ sim_pc # "tick"
    /\ HasRow(bin_id)
    /\ Len(collection_logs) < MaxCollections
    /\ update_waste_level(bin_id, after_level)
    /\ collection_logs' =
           Append(collection_logs,
                  [bin_id |-> bin_id,
                   before_level |-> get_bin_by_id(bin_id).waste_level,
                   after_level |-> after_level])
    /\ UNCHANGED <<routes, sensor_logs, sim_pc, sim_queue, sim_start,
                   web_vars, route_vars, saved, score_vars, fill_pc,
                   fill_bin_id, fill_query_ok, fill_result, time_vars,
                   predict_vars, zone_vars>>

-----------------------------------------------------------------------------
(* The web application: one browser session against the Flask handlers.    *)
(* A response is [kind, status, handler, body]; handler names the handler  *)
(* whose body produced it, "none" when a decorator answered.               *)

\* The session after session.clear(): no key.
NoSession == <<>>

NoRequest == [endpoint |-> "none", args |-> <<>>]

\* The request the handler is answering.
Asked(endpoint, args) == request' = [endpoint |-> endpoint, args |-> args]

NoResponse ==
    [kind |-> "none", status |-> 0, handler |-> "none", body |-> "none"]

UserRow(id, username, password, role, status) ==
    [user_id |-> id, username |-> username, password |-> password,
     full_name |-> username, email |-> username, role |-> role,
     status |-> status, last_login |-> NULL]

ReportRow(id, citizen_id, bin_id, status) ==
    [report_id |-> id, citizen_id |-> citizen_id, bin_id |-> bin_id,
     priority |-> "medium", status |-> status]

Response(kind, status, handler, body) ==
    [kind |-> kind, status |-> status, handler |-> handler, body |-> body]

\* The tables a request may write.
web_stored == <<bins_table, alerts, users, waste_reports>>

\* What the web handlers never touch.
WebFrame ==
    UNCHANGED <<routes, sim_vars, route_vars, saved, score_vars, fill_vars,
                time_vars, predict_vars, zone_vars>>

\* A decorator answers instead of the handler.
Refused(answer) ==
    /\ response' = answer
    /\ UNCHANGED <<web_stored, session>>

\* app.py lines 68-75.
login_required(Handler) ==
    IF "user_id" \notin DOMAIN session
    THEN Refused(Response("redirect", 302, "none", "login"))
    ELSE Handler

\* A role check that lets every session with a role through.
role_required_AnyRole(roles, Handler) ==
    IF "role" \notin DOMAIN session
    THEN Refused(Response("json", 403, "none", "Unauthorized access"))
    ELSE Handler

\* app.py lines 77-86.
role_required(roles, Handler) ==
    IF "role" \notin DOMAIN session \/ session["role"] \notin roles
    THEN Refused(Response("json", 403, "none", "Unauthorized access"))
    ELSE Handler

\* User.authenticate, models.py lines 98-118: the index of the first row
\* the query selects, 0 when it selects none.
authenticate(username, password) ==
    LET found == {i \in DOMAIN users :
                     /\ users[i].username = username
                     /\ users[i].password = password
                     /\ users[i].status = "active"}
    IN  IF found = {} THEN 0
        ELSE CHOOSE i \in found : \A j \in found : i <= j

\* app.py lines 119-123.
SessionOf(user) ==
    [user_id |-> user.user_id, username |-> user.username,
     full_name |-> user.full_name, role |-> user.role, email |-> user.email]

\* A login that opens a session for whoever bears the username.
Login_IgnoresPassword(username, password, is_json) ==
    /\ \E i \in DOMAIN users :
           /\ users[i].username = username
           /\ session' = SessionOf(users[i])
    /\ response' = Response("json", 200, "login", "success")
    /\ UNCHANGED <<bins_table, alerts, users, waste_reports>>
    /\ Asked("login", <<username, password>>)
    /\ WebFrame

\* POST /login, app.py lines 106-142.
Login(username, password, is_json) ==
    /\ LET found == authenticate(username, password) IN
           IF found # 0
           THEN /\ users' = [users EXCEPT ![found].last_login = Now]
                /\ session' = SessionOf(users[found])
                /\ response' =
                       IF is_json
                       THEN Response("json", 200, "login", "success")
                       ELSE IF users[found].role \in {"admin", "staff", "citizen"}
                       THEN Response("redirect", 302, "login",
                                     users[found].role)
                       ELSE Response("page", 200, "login", "login.html")
           ELSE /\ UNCHANGED <<users, session>>
                /\ response' =
                       IF is_json
                       THEN Response("json", 401, "login",
                                     "Invalid credentials")
                       ELSE Response("page", 200, "login",
                                     "Invalid credentials")
    /\ UNCHANGED <<bins_table, alerts, waste_reports>>
    /\ Asked("login", <<username, password>>)
    /\ WebFrame

\* GET /login, app.py line 144.
LoginPage ==
    /\ response' = Response("page", 200, "login", "login.html")
    /\ UNCHANGED <<web_stored, session>>
    /\ Asked("login", <<>>)
    /\ WebFrame

\* GET /logout, app.py lines 146-150.
Logout ==
    /\ session' = NoSession
    /\ response' = Response("redirect", 302, "logout", "index")
    /\ UNCHANGED web_stored
    /\ Asked("logout", <<>>)
    /\ WebFrame

\* GET /admin/dashboard, app.py lines 157-162.
AdminDashboard ==
    /\ login_required(role_required({"admin"},
           /\ response' = Response("page", 200, "admin_dashboard",
                                   "admin/dashboard.html")
           /\ UNCHANGED <<web_stored, session>>))
    /\ Asked("admin_dashboard", <<>>)
    /\ WebFrame

\* POST /api/bins/<bin_id>/update, app.py lines 306-319: the UPDATE reports
\* its affected rows, so the answer is a success whether or not the bin has
\* a row.
ApiUpdateBinLevel(bin_id, waste_level) ==
    /\ Len(alerts) < MaxAlerts
    /\ login_required(role_required({"admin", "staff"},
           /\ update_waste_level(bin_id, waste_level)
           /\ response' = Response("json", 200, "api_update_bin_level",
                                   "Bin level updated")
           /\ UNCHANGED <<users, waste_reports, session>>))
    /\ Asked("api_update_bin_level", <<bin_id, waste_level>>)
    /\ WebFrame

\* POST /api/reports/create, app.py lines 463-484, and
\* WasteReport.create_report, models.py lines 384-398.
ApiCreateReport(bin_id) ==
    /\ Len(waste_reports) < MaxReports
    /\ login_required(role_required({"citizen"},
           /\ waste_reports' =
                  Append(waste_reports,
                         ReportRow(Len(waste_reports) + 1, session["user_id"],
                                   bin_id, "pending"))
           /\ response' = Response("json", 200, "api_create_report",
                                   "Report submitted successfully")
           /\ UNCHANGED <<bins_table, alerts, users, session>>))
    /\ Asked("api_create_report", <<bin_id>>)
    /\ WebFrame

\* WasteReport.get_citizen_reports, models.py lines 436-445; the order of
\* the rows is left out.
get_citizen_reports(citizen_id) ==
    {waste_reports[i] : i \in {j \in DOMAIN waste_reports :
                                  waste_reports[j].citizen_id = citizen_id}}

\* WasteReport.get_all_reports, models.py lines 400-420; status is the
\* empty string when the request has no status parameter (both are falsy).
get_all_reports(status) ==
    {waste_reports[i] : i \in {j \in DOMAIN waste_reports :
                                  \/ status = ""
                                  \/ waste_reports[j].status = status}}

\* A reports handler that answers every role alike.
ReportsFor_Everyone(status) == get_all_reports(status)

\* app.py lines 456-459.
ReportsFor(status) ==
    IF "role" \in DOMAIN session /\ session["role"] = "citizen"
    THEN get_citizen_reports(session["user_id"])
    ELSE get_all_reports(status)

\* GET /api/reports, app.py lines 449-461.
ApiGetReports(status) ==
    /\ login_required(
           /\ response' = Response("json", 200, "api_get_reports",
                                   ReportsFor(status))
           /\ UNCHANGED <<web_stored, session>>)
    /\ Asked("api_get_reports", <<status>>)
    /\ WebFrame

\* A call of get_bin_priority_score on its own.
ScoreCall ==
    /\ score_value = NULL
    /\ score_value' = get_bin_priority_score(score_level)
    /\ UNCHANGED <<sim_vars, web_vars,
                   bins_table, alerts, routes, zone_vars,
                   route_vars, saved, score_level, fill_vars,
                   time_vars, predict_vars>>

\* The caller takes the result of a finished optimize_route call and may
\* keep it for comparison; the optimizer is free for the next call.
NextCall(keep) ==
    /\ pc = "done"
    /\ pc' = "idle"
    /\ saved' = IF keep
                THEN [set |-> TRUE, between |-> FALSE, bin_ids |-> bin_ids,
                      start_location |-> start_location,
                      bins_table |-> bins_table, result |-> result]
                ELSE [saved EXCEPT !.between = TRUE]
    /\ UNCHANGED <<sim_vars, web_vars,
                   bins_table, alerts, routes, zone_vars,
                   bin_ids, start_location, bins, current,
                   optimized_route, remaining_bins, total_distance, result,
                   score_vars, fill_vars, time_vars, predict_vars>>

-----------------------------------------------------------------------------
(* Inputs and specifications.                                              *)

RECURSIVE SeqsUpTo(_, _)
SeqsUpTo(S, n) ==
    IF n = 0 THEN {<<>>}
    ELSE LET shorter == SeqsUpTo(S, n - 1) IN
         shorter \cup {Append(s, x) : s \in {t \in shorter : Len(t) = n - 1},
                                      x \in S}

Requests == SeqsUpTo(RequestIds, MaxReq)

StartLocations == {<<>>, Points[1], Points[6]}

RouteInit ==
    /\ pc = "idle"
    /\ bin_ids = <<>>
    /\ start_location = <<>>
    /\ bins = <<>>
    /\ current = <<>>
    /\ optimized_route = <<>>
    /\ remaining_bins = <<>>
    /\ total_distance = 0
    /\ result = NoResult

NoSaved == [set |-> FALSE, between |-> FALSE]

ScoreIdle == score_level = 0 /\ score_value = NULL

FillIdle ==
    /\ sensor_logs = <<>>
    /\ fill_pc = "idle"
    /\ fill_bin_id = 0
    /\ fill_query_ok = TRUE
    /\ fill_result = NoRate

TimeIdle == ttf_level = 0 /\ ttf_rate = NoRate /\ ttf_hours = NoRate

SimIdle ==
    /\ collection_logs = <<>>
    /\ sim_pc = "idle"
    /\ sim_queue = <<>>
    /\ sim_start = NoTick

WebIdle ==
    /\ users = <<>>
    /\ waste_reports = <<>>
    /\ session = NoSession
    /\ request = NoRequest
    /\ response = NoResponse

PredictIdle ==
    /\ threshold_hours = 24
    /\ all_bins = <<>>
    /\ predictions = <<>>
    /\ predict_pc = "idle"
    /\ bins_to_collect = <<>>
    /\ collect_max_bins = NULL
    /\ zone_pc = "idle"
    /\ zone_args = <<>>
    /\ zone_result = <<>>
    /\ alerts = <<>>
    /\ routes = <<>>

\* One optimize_route call on either table.
Init ==
    /\ bins_table \in BinTables
    /\ RouteInit
    /\ saved = NoSaved
    /\ ScoreIdle
    /\ FillIdle
    /\ TimeIdle
    /\ PredictIdle
    /\ SimIdle
    /\ WebIdle

Next ==
    \/ optimize_route(Requests, StartLocations)
    \/ GreedyStep
    \/ OptimizeRouteReturn

Spec == Init /\ [][Next]_vars

\* Repeated optimize_route calls on a small set of requests.
RepeatIds == {1, 2, 3}

RepeatRequests == SeqsUpTo(RepeatIds, MaxRepeatReq)

RepeatStarts == {<<>>, Points[1]}

NextRepeat ==
    \/ optimize_route(RepeatRequests, RepeatStarts)
    \/ GreedyStep
    \/ OptimizeRouteReturn
    \/ \E keep \in BOOLEAN : NextCall(keep)

SpecRepeat == Init /\ [][NextRepeat]_vars

\* One optimize_route call that, once entered, runs on: the loop iterates
\* while bins remain and the call returns when none does.
\* The requests draw on three bins that are kept, one that is dropped and
\* one id without a row.
RunIds == {3, 4, 5, 7, 9}

RunRequests == SeqsUpTo(RunIds, MaxReq)

NextRun ==
    \/ optimize_route(RunRequests, StartLocations)
    \/ GreedyStep
    \/ OptimizeRouteReturn

SpecRun ==
    Init /\ [][NextRun]_vars /\ WF_vars(GreedyStep)
         /\ WF_vars(OptimizeRouteReturn)

\* get_bin_priority_score on every level from below 0 to above 100.
Levels == (0 - LevelPad)..(100 + LevelPad)

InitScore ==
    /\ bins_table = TableA
    /\ RouteInit
    /\ saved = NoSaved
    /\ score_level \in Levels
    /\ score_value = NULL
    /\ FillIdle
    /\ TimeIdle
    /\ PredictIdle
    /\ SimIdle
    /\ WebIdle

NextScore == ScoreCall

SpecScore == InitScore /\ [][NextScore]_vars

\* get_fill_rate over stored logs.  Bin 1 has up to MaxLogs logs, appended in
\* time order, one possibly older than the 7-day window and one exactly on
\* its edge; bin 2 has two logs; bin 3 has none.
LogTimes == {Now - WindowMinutes - 30, Now - WindowMinutes,
             Now - WindowMinutes + 60, Now - WindowMinutes + 120}

LogLevels == {10, 15, 20, 50, NULL}

OwnLogs ==
    {s \in SeqsUpTo({LogRow(1, l, t) : l \in LogLevels, t \in LogTimes}, MaxLogs) :
        \A i \in 1..(Len(s) - 1) : s[i].timestamp <= s[i + 1].timestamp}

OtherLogs == <<LogRow(2, 30, Now - 90), LogRow(2, 33, Now - 30)>>

FillBins == {1, 2, 3}

InitFill ==
    /\ bins_table = TableA
    /\ RouteInit
    /\ saved = NoSaved
    /\ ScoreIdle
    /\ sensor_logs \in {OtherLogs \o s : s \in OwnLogs}
    /\ fill_pc = "idle"
    /\ fill_bin_id = 0
    /\ fill_query_ok = TRUE
    /\ fill_result = NoRate
    /\ TimeIdle
    /\ PredictIdle
    /\ SimIdle
    /\ WebIdle

NextFill == \E id \in FillBins, ok \in BOOLEAN : GetFillRate(id, ok)

SpecFill == InitFill /\ [][NextFill]_vars

\* predict_time_to_full on every level from below 0 to above 100 and on fill
\* rates below, at and above 0.
TimeRates ==
    {Rate(0 - 3, 1), Rate(0 - 1, 2), Rate(0, 1), Rate(1, 4), Rate(1, 2),
     Rate(2, 1), Rate(7, 3), Rate(10, 1), Rate(25, 1)}

InitTime ==
    /\ bins_table = TableA
    /\ RouteInit
    /\ saved = NoSaved
    /\ ScoreIdle
    /\ FillIdle
    /\ ttf_level \in Levels
    /\ ttf_rate \in TimeRates
    /\ ttf_hours = NoRate
    /\ PredictIdle
    /\ SimIdle
    /\ WebIdle

NextTime == PredictTimeToFull

SpecTime == InitTime /\ [][NextTime]_vars

\* predict_bins_needing_collection over three tables, with recent logs
\* stored for the bins 1..MaxLoggedBins: none, or two logs whose fit is 0.5,
\* 5, 40 or 2.075 percent per hour, or falling.
TableC ==
    [id \in 1..8 |->
        CASE id = 1 -> Row(1, 286074159, 771946519, 30, "north", "active")
          [] id = 2 -> Row(2, 286447324, 772014389, 75, "north", "active")
          [] id = 3 -> Row(3, 286000000, 772000000, 85, "north", "active")
          [] id = 4 -> Row(4, 286000400, 772000000, 40, "south", "active")
          [] id = 5 -> Row(5, 286000800, 772000000, 90, "south", "active")
          [] id = 6 -> Row(6, 285800000, 772200000, 88, "south", "inactive")
          [] id = 7 -> Row(7, 0, 772000000, 75, "south", "active")
          [] id = 8 -> Row(8, NULL, NULL, 69, "north", "active")]

PredictTables == {TableA, TableB, TableC}

Thresholds == {0, 12, 24, 48}

LogProfiles(id) ==
    {<<>>,
     <<LogRow(id, 10, Now - 180), LogRow(id, 11, Now - 60)>>,
     <<LogRow(id, 10, Now - 180), LogRow(id, 20, Now - 60)>>,
     <<LogRow(id, 10, Now - 120), LogRow(id, 50, Now - 60)>>,
     <<LogRow(id, 10, Now - 2400), LogRow(id, 93, Now)>>,
     <<LogRow(id, 60, Now - 120), LogRow(id, 5, Now - 60)>>}

RECURSIVE StoredLogs(_)
StoredLogs(n) ==
    IF n = 0 THEN {<<>>}
    ELSE {logs \o own : logs \in StoredLogs(n - 1), own \in LogProfiles(n)}

InitPredict ==
    /\ bins_table \in PredictTables
    /\ RouteInit
    /\ saved = NoSaved
    /\ ScoreIdle
    /\ sensor_logs \in StoredLogs(MaxLoggedBins)
    /\ fill_pc = "idle"
    /\ fill_bin_id = 0
    /\ fill_query_ok = TRUE
    /\ fill_result = NoRate
    /\ TimeIdle
    /\ PredictIdle
    /\ SimIdle
    /\ WebIdle

NextPredict == \E threshold \in Thresholds : PredictBinsNeedingCollection(threshold)

SpecPredict == InitPredict /\ [][NextPredict]_vars

\* optimize_route over a table in which bin 2 has no numeric waste level,
\* bin 3 a latitude and bin 4 a longitude that is not a number, and bin 5 a
\* waste level that is not a number.
TableD ==
    [id \in 1..6 |->
        CASE id = 1 -> Row(1, 286074159, 771946519, 65, "north", "active")
          [] id = 2 -> Row(2, 286447324, 772014389, NULL, "north", "active")
          [] id = 3 -> Row(3, MALFORMED, 772000000, 95, "north", "active")
          [] id = 4 -> Row(4, 286000400, MALFORMED, 85, "south", "active")
          [] id = 5 -> Row(5, 286000800, 772000000, MALFORMED, "south", "active")
          [] id = 6 -> Row(6, 285800000, 772200000, 55, "south", "active")]

InitInvalid ==
    /\ bins_table = TableD
    /\ RouteInit
    /\ saved = NoSaved
    /\ ScoreIdle
    /\ FillIdle
    /\ TimeIdle
    /\ PredictIdle
    /\ SimIdle
    /\ WebIdle

SpecInvalid == InitInvalid /\ [][Next]_vars

\* One call of a prediction or routing operation, made at any moment while
\* the simulator and the route editor write the stored data.
SensorBins == {1, 2}

SensorLevels == {60, 85, 95}

StoredRoutes == {<<1>>, <<2, 1>>}

StoreRequests == {<<2, 1>>, <<3>>}

InitStore ==
    /\ bins_table \in {TableA, TableC}
    /\ RouteInit
    /\ saved = NoSaved
    /\ ScoreIdle
    /\ FillIdle
    /\ TimeIdle
    /\ PredictIdle
    /\ SimIdle
    /\ WebIdle

\* No prediction or routing call has been made yet.
NoCallYet ==
    pc = "idle" /\ fill_pc = "idle" /\ predict_pc = "idle" /\ zone_pc = "idle"

NextStore ==
    \/ \E id \in SensorBins, level \in SensorLevels : UpdateBinSensor(id, level)
    \/ \E ids \in StoredRoutes : CreateRoute(ids)
    \/ NoCallYet /\ \E id \in SensorBins : GetFillRate(id, TRUE)
    \/ NoCallYet /\ PredictBinsNeedingCollection(24)
    \/ NoCallYet /\ GetOptimalCollectionBins(2)
    \/ NoCallYet /\ optimize_route(StoreRequests, {<<>>})
    \/ GreedyStep
    \/ OptimizeRouteReturn
    \/ NoCallYet /\ \E zone \in {"north", "south"} : OptimizeRouteByZone(zone, 2)
    \/ NoCallYet /\ \E zones \in {<<>>, <<"south">>} : CreateDailyRoutes(zones, 2)

SpecStore == InitStore /\ [][NextStore]_vars

-----------------------------------------------------------------------------
\* Simulator ticks and simulated collections on four bins.  TableS holds
\* levels a sensor can report; TableT holds levels outside 0..100, stored
\* by someone else, and a full bin.
TableS ==
    [id \in 1..4 |->
        CASE id = 1 -> Row(1, 286074159, 771946519, 99, "north", "active")
          [] id = 2 -> Row(2, 286447324, 772014389, 1, "north", "active")
          [] id = 3 -> Row(3, 286000000, 772000000, 95, "south", "inactive")
          [] id = 4 -> Row(4, 286000400, 772000000, 79, "south", "active")]

TableT ==
    [id \in 1..4 |->
        CASE id = 1 -> Row(1, 286074159, 771946519, 103, "north", "active")
          [] id = 2 -> Row(2, 286447324, 772014389, 0 - 1, "north", "active")
          [] id = 3 -> Row(3, 286000000, 772000000, 100, "south", "inactive")
          [] id = 4 -> Row(4, 286000400, 772000000, 100, "south", "active")]

SimTables == {TableS, TableT}

CollectedBins == {3, 4, 5}

CollectionLevels == {2, 8}

InitSim ==
    /\ bins_table \in SimTables
    /\ RouteInit
    /\ saved = NoSaved
    /\ ScoreIdle
    /\ FillIdle
    /\ TimeIdle
    /\ PredictIdle
    /\ SimIdle
    /\ WebIdle

NextSim ==
    \/ UpdateAllBinsBegin
    \/ UpdateAllBinsStep
    \/ UpdateAllBinsReturn
    \/ \E id \in CollectedBins, level \in CollectionLevels \cap AfterLevels :
           SimulateCollection(id, level)

SpecSim == InitSim /\ [][NextSim]_vars

\* One browser against the web application: an admin, a staff member, two
\* citizens and a citizen whose account is not active; each citizen has
\* reported once.
UsersTable ==
    <<UserRow(1, "admin", "pa", "admin", "active"),
      UserRow(2, "stan", "ps", "staff", "active"),
      UserRow(3, "cara", "pc", "citizen", "active"),
      UserRow(4, "cody", "pd", "citizen", "active"),
      UserRow(5, "ina", "pi", "citizen", "inactive")>>

ReportsTable == <<ReportRow(1, 3, 1, "pending"), ReportRow(2, 4, 1, "resolved")>>

Credentials ==
    {<<"admin", "pa">>, <<"stan", "ps">>, <<"cara", "pc">>, <<"cody", "pd">>,
     <<"ina", "pi">>, <<"cara", "pd">>, <<"nobody", "pa">>}

PostedBins == {1, 9}

PostedLevels == {79, 80, 90}

ReportedBins == {1}

StatusParameters == {"", "pending", "resolved"}

InitWeb ==
    /\ bins_table = TableS
    /\ RouteInit
    /\ saved = NoSaved
    /\ ScoreIdle
    /\ FillIdle
    /\ TimeIdle
    /\ PredictIdle
    /\ SimIdle
    /\ users = UsersTable
    /\ waste_reports = ReportsTable
    /\ session = NoSession
    /\ request = NoRequest
    /\ response = NoResponse

NextWeb ==
    \/ \E cred \in Credentials, is_json \in BOOLEAN :
           Login(cred[1], cred[2], is_json)
    \/ LoginPage
    \/ Logout
    \/ AdminDashboard
    \/ \E bin_id \in PostedBins, level \in PostedLevels :
           ApiUpdateBinLevel(bin_id, level)
    \/ \E bin_id \in ReportedBins : ApiCreateReport(bin_id)
    \/ \E status \in StatusParameters : ApiGetReports(status)

SpecWeb == InitWeb /\ [][NextWeb]_vars

\* get_optimal_collection_bins over the tables and logs of the predictions,
\* for every limit from none to more bins than are stored.
BinLimits == {0, 1, 3, 5, 9}

NextCollect == \E max_bins \in BinLimits : GetOptimalCollectionBins(max_bins)

SpecCollect == InitPredict /\ [][NextCollect]_vars

\* Routes by zone and daily routes over the three tables; "west" is a zone
\* without bins, and one list of zones names a zone twice.
ZoneTables == {TableA, TableB, TableC}

ZonesAsked == {"north", "south", "west"}

ZoneListsAsked ==
    {<<>>, <<"north">>, <<"south">>, <<"north", "south">>,
     <<"south", "north">>, <<"west", "south">>, <<"north", "north">>}

ZoneLimits == {0, 1, 2, 3, 8}

InitZone ==
    /\ bins_table \in ZoneTables
    /\ RouteInit
    /\ saved = NoSaved
    /\ ScoreIdle
    /\ FillIdle
    /\ TimeIdle
    /\ PredictIdle
    /\ SimIdle
    /\ WebIdle

NextZone ==
    \/ \E zone \in ZonesAsked, max_bins \in ZoneLimits :
           OptimizeRouteByZone(zone, max_bins)
    \/ \E zones \in ZoneListsAsked, bins_per_route \in ZoneLimits :
           CreateDailyRoutes(zones, bins_per_route)

SpecZone == InitZone /\ [][NextZone]_vars

(* Vocabulary of the properties below.                                     *)

Range(seq) == {seq[i] : i \in DOMAIN seq}

Distinct(seq) == \A i, j \in DOMAIN seq : seq[i] = seq[j] => i = j

\* The bin has a row whose latitude and longitude are both numbers.
HasCoordinates(id) ==
    /\ HasRow(id)
    /\ get_bin_by_id(id).latitude # NULL
    /\ get_bin_by_id(id).longitude # NULL

StopsOf(id) == {i \in DOMAIN result.bins : result.bins[i].bin_id = id}

\* First position of a bin id in the requested list.
Pos(id) == CHOOSE i \in DOMAIN bin_ids :
               bin_ids[i] = id /\ \A j \in 1..(i - 1) : bin_ids[j] # id

Returned == pc = "done"

RECURSIVE SumOver(_, _)
SumOver(f, n) == IF n = 0 THEN 0 ELSE f[n] + SumOver(f, n - 1)

Abs(x) == IF x < 0 THEN 0 - x ELSE x

-----------------------------------------------------------------------------
(* Properties of optimize_route.                                           *)

\* C1: for a list of distinct requested ids, the stops of the returned route
\* are a permutation of the requested bins that exist and have a coordinate
\* pair: each such bin holds exactly one stop and every stop holds a
\* requested bin.
C1_StopsArePermutation ==
    (Returned /\ Distinct(bin_ids)) =>
        /\ \A id \in Range(bin_ids) :
               HasCoordinates(id) => Cardinality(StopsOf(id)) = 1
        /\ \A i \in DOMAIN result.bins :
               /\ result.bins[i].bin_id \in Range(bin_ids)
               /\ HasCoordinates(result.bins[i].bin_id)

\* C2: a requested bin whose latitude and longitude are both present numbers
\* is always kept in the route; only a bin with an absent coordinate (or no
\* row) is excluded.
C2_PresentCoordinatesKept ==
    Returned =>
        \A id \in Range(bin_ids) :
            (StopsOf(id) = {}) <=> ~HasCoordinates(id)

\* C3: an empty request, or one in which every bin lacks coordinates, returns
\* no stops, total distance 0 and average waste level 0.
C3_EmptyResultIsZeroed ==
    (Returned /\ \A id \in Range(bin_ids) : ~HasCoordinates(id)) =>
        /\ result.bins = <<>>
        /\ result.total_distance = 0
        /\ "average_waste_level" \in DOMAIN result
        /\ result.average_waste_level = 0

\* The kept bin that C4 names: highest priority score, the earliest requested
\* of those.
IsTopKept(id) ==
    /\ id \in Range(bin_ids)
    /\ KeepBin(id)
    /\ \A other \in Range(bin_ids) :
           KeepBin(other) =>
               LET p == get_bin_priority_score(get_bin_by_id(id).waste_level)
                   q == get_bin_priority_score(get_bin_by_id(other).waste_level)
               IN  q < p \/ (q = p /\ Pos(id) <= Pos(other))

\* C4: without a start location, stop 1 is the kept bin with the highest
\* priority score (the earliest requested on equal scores), its
\* distance_from_previous is 0, and that bin holds no later stop.
C4_StartBinIsFirstStopOnly ==
    (Returned /\ start_location = <<>> /\ result.bins # <<>>) =>
        /\ IsTopKept(result.bins[1].bin_id)
        /\ result.bins[1].distance_from_previous = 0
        /\ StopsOf(result.bins[1].bin_id) = {1}

\* One iteration of the greedy loop has just been taken.
StepTaken == pc = "loop" /\ Len(optimized_route') = Len(optimized_route) + 1

\* The pool entry of the stop the iteration appended.
Chosen == CHOOSE i \in DOMAIN remaining_bins :
              remaining_bins[i].bin_id =
                  optimized_route'[Len(optimized_route')].bin_id

PoolScore(i) == Score(remaining_bins[i], current)

Tied(i) == \A j \in DOMAIN remaining_bins : PoolScore(j) <= PoolScore(i)

\* The appended stop is a remaining bin of greatest score and the position
\* moves to it.
ChoosesGreatest ==
    /\ \E i \in DOMAIN remaining_bins :
           remaining_bins[i].bin_id =
               optimized_route'[Len(optimized_route')].bin_id
    /\ Tied(Chosen)
    /\ current' = <<remaining_bins[Chosen].latitude,
                    remaining_bins[Chosen].longitude>>
    /\ Len(remaining_bins') = Len(remaining_bins) - 1

\* The order of the pool: requested order under a start location, otherwise
\* descending priority score and requested order within one score.
PoolBefore(a, b) ==
    IF start_location # <<>> THEN Pos(a.bin_id) <= Pos(b.bin_id)
    ELSE \/ a.priority_score > b.priority_score
         \/ /\ a.priority_score = b.priority_score
            /\ Pos(a.bin_id) <= Pos(b.bin_id)

HopOrigin(i) ==
    IF i > 1 THEN <<result.bins[i - 1].latitude, result.bins[i - 1].longitude>>
    ELSE IF start_location # <<>> THEN start_location
    ELSE <<result.bins[1].latitude, result.bins[1].longitude>>

Hops == [i \in DOMAIN result.bins |->
            calculate_distance(HopOrigin(i)[1], HopOrigin(i)[2],
                               result.bins[i].latitude, result.bins[i].longitude)]

StopDistances == [i \in DOMAIN result.bins |->
                     result.bins[i].distance_from_previous]

\* C7 as stated: the reported total distance equals the sum of the stops'
\* distance_from_previous values.
C7_TotalIsSumOfStopValues ==
    (Returned /\ result.bins # <<>>) =>
        result.total_distance = SumOver(StopDistances, Len(result.bins))

\* C7 amended: the reported total distance is the sum of the unrounded hop
\* distances, rounded to two decimals once; it differs from the sum of the
\* stops' individually rounded distance_from_previous values by at most
\* 0.005 km per stop plus 0.005 km.
C7_TotalIsRoundedSumOfHops ==
    (Returned /\ result.bins # <<>>) =>
        /\ result.total_distance = Round2(SumOver(Hops, Len(result.bins)))
        /\ 2 * Abs(result.total_distance
                   - SumOver(StopDistances, Len(result.bins)))
               <= Len(result.bins) + 1

\* C7 witness: a returned route of two stops from a start location whose
\* total is not the sum of its stops' values.
C7_Witness ==
    /\ Returned
    /\ start_location # <<>>
    /\ Len(result.bins) >= 2
    /\ result.total_distance # SumOver(StopDistances, Len(result.bins))

-----------------------------------------------------------------------------
(* Properties of get_bin_priority_score, of repeated calls, and of         *)
(* get_fill_rate.                                                          *)

\* C6: get_bin_priority_score is the step function 100 from 90, 80 on
\* [80, 90), 60 on [70, 80), 40 on [60, 70) and 20 below; it takes only the
\* values 20, 40, 60, 80, 100 and never decreases as the level rises.
C6_ScoreIsStepFunction ==
    score_value # NULL =>
        /\ score_level >= 90 => score_value = 100
        /\ (80 <= score_level /\ score_level < 90) => score_value = 80
        /\ (70 <= score_level /\ score_level < 80) => score_value = 60
        /\ (60 <= score_level /\ score_level < 70) => score_value = 40
        /\ score_level < 60 => score_value = 20
        /\ score_value \in {20, 40, 60, 80, 100}
        /\ \A lower \in Levels :
               lower <= score_level =>
                   get_bin_priority_score(lower) <= score_value

\* C6 witness: the call returned 100 for the level 90 itself.
C6_Witness == score_level = 90 /\ score_value = 100

\* C8: a finished call returns what an earlier call with the same requested
\* ids and start location returned on the same bins table, whatever calls
\* ran in between.
C8_SameInputSameRoute ==
    (/\ Returned
     /\ saved.set
     /\ saved.bin_ids = bin_ids
     /\ saved.start_location = start_location
     /\ saved.bins_table = bins_table) => result = saved.result

\* C8 witness: a call without a start location repeats an earlier one, with
\* another call finished in between, and returns a route of several stops.
C8_Witness ==
    /\ Returned
    /\ saved.set
    /\ saved.between
    /\ saved.bin_ids = bin_ids
    /\ saved.start_location = start_location
    /\ start_location = <<>>
    /\ Len(result.bins) >= 2

\* The logs the query of the finished get_fill_rate call is about.
RecentLogs ==
    {i \in DOMAIN sensor_logs :
        /\ sensor_logs[i].bin_id = fill_bin_id
        /\ sensor_logs[i].timestamp >= Now - WindowMinutes}

FillReturned == fill_pc = "done"

IsRate(r, n) == r.kind = "value" /\ r.num = n * r.den

\* C9: with fewer than 2 readings available (none at all, or a failed read)
\* get_fill_rate returns exactly 2.0 and raises nothing.
C9_FewLogsGiveDefault ==
    (FillReturned /\ (~fill_query_ok \/ Cardinality(RecentLogs) < 2)) =>
        /\ fill_result.kind = "value"
        /\ fill_result.num = 2
        /\ fill_result.den = 1

\* C9 witness: the call returned after a failed read for a bin that has
\* several recent logs.
C9_Witness ==
    /\ FillReturned
    /\ ~fill_query_ok
    /\ Cardinality(RecentLogs) >= 2

\* The fit of the finished call ran to its end: the read succeeded, there
\* were at least 2 logs and every level was a number.
FitRan ==
    /\ fill_query_ok
    /\ Cardinality(RecentLogs) >= 2
    /\ \A i \in RecentLogs : sensor_logs[i].waste_level # NULL

FittedSlope == FitSlope(QueryLogs(fill_bin_id, TRUE).rows)

\* C10: the returned fill rate is above 0 and at most 10; a fitted slope
\* b <= 0 gives 2.0, b > 10 gives 10.0, and b in (0, 10] is returned as is.
C10_RateIsClamped ==
    FillReturned =>
        /\ fill_result.kind = "value"
        /\ fill_result.den > 0
        /\ fill_result.num > 0
        /\ fill_result.num <= 10 * fill_result.den
        /\ FitRan =>
               LET b == FittedSlope IN
               /\ b.den > 0
               /\ b.num <= 0 => IsRate(fill_result, 2)
               /\ b.num > 10 * b.den => IsRate(fill_result, 10)
               /\ (0 < b.num /\ b.num <= 10 * b.den) => fill_result = b

\* C10 witness: the fit of three logs had slope exactly zero and the call
\* returned 2.0.
C10_Witness ==
    /\ FillReturned
    /\ FitRan
    /\ Cardinality(RecentLogs) = 3
    /\ FittedSlope.num = 0
    /\ \E i, j \in RecentLogs : sensor_logs[i].timestamp # sensor_logs[j].timestamp
    /\ IsRate(fill_result, 2)

\* Further reachable cases of C10: a slope above 10 capped, and a slope of 5
\* returned as it is.
C10_CappedCase ==
    FillReturned /\ FitRan /\ FittedSlope.num > 10 * FittedSlope.den
    /\ IsRate(fill_result, 10)

C10_UnchangedCase ==
    FillReturned /\ FitRan /\ Cardinality(RecentLogs) = 3
    /\ IsRate(FittedSlope, 5) /\ IsRate(fill_result, 5)

\* The try block of the finished call was entered: the read succeeded and
\* gave at least 2 logs.
FitEntered == fill_query_ok /\ Cardinality(RecentLogs) >= 2

\* A level of the fitted logs is not a number: float() raises inside the try.
FitRaised == \E i \in RecentLogs : sensor_logs[i].waste_level = NULL

\* Every fitted log carries the same timestamp.
DegenerateFit ==
    \A i, j \in RecentLogs : sensor_logs[i].timestamp = sensor_logs[j].timestamp

\* C11: once the try block of get_fill_rate is entered the call returns a
\* value and raises nothing; a fit that raises, and a degenerate fit in which
\* all timestamps are identical, both return exactly the default 2.0.
C11_FitFailureGivesDefault ==
    (FillReturned /\ FitEntered) =>
        /\ fill_result.kind = "value"
        /\ (FitRaised \/ DegenerateFit) =>
               fill_result.num = 2 /\ fill_result.den = 1

\* C11 witness: the call returned 2.0 after a fit over three logs, one of
\* them without a numeric level, raised inside the try block.
C11_Witness ==
    /\ FillReturned
    /\ FitEntered
    /\ FitRaised
    /\ Cardinality(RecentLogs) = 3
    /\ IsRate(fill_result, 2)

\* A further reachable case of C11: two numeric logs of different levels at
\* one timestamp, and the call returned 2.0.
C11_DegenerateCase ==
    /\ FillReturned
    /\ FitRan
    /\ DegenerateFit
    /\ \E i, j \in RecentLogs :
           sensor_logs[i].waste_level # sensor_logs[j].waste_level
    /\ IsRate(fill_result, 2)

-----------------------------------------------------------------------------
(* Properties of predict_time_to_full and predict_bins_needing_collection. *)

\* The rate predict_time_to_full divides by: the given one when above 0,
\* otherwise 2.0.
TimeDivisor == IF ttf_rate.num > 0 THEN ttf_rate ELSE Rate(2, 1)

\* C12: predict_time_to_full returns 0 from level 100 up whatever the rate;
\* below 100 it returns (100 - level) / r with r the given rate when that is
\* above 0 and 2.0 otherwise; it never fails on a zero rate, and for a level
\* in [0, 100] the result is not negative.
C12_TimeToFull ==
    ttf_hours # NoRate =>
        /\ ttf_hours.kind = "value"
        /\ ttf_hours.den > 0
        /\ ttf_level >= 100 => ttf_hours.num = 0
        /\ ttf_level < 100 =>
               ttf_hours.num * TimeDivisor.num
                   = (100 - ttf_level) * TimeDivisor.den * ttf_hours.den
        /\ (0 <= ttf_level /\ ttf_level <= 100) => ttf_hours.num >= 0

\* C12 witness: the call was given level 52 and a negative rate and returned
\* 24 hours.
C12_Witness ==
    /\ ttf_level = 52
    /\ ttf_rate.num < 0
    /\ IsRate(ttf_hours, 24)

\* Further reachable cases of C12: a zero rate below level 100, and a level
\* above 100 with a negative rate.
C12_ZeroRateCase ==
    ttf_level = 99 /\ ttf_rate.num = 0 /\ ttf_hours = Rate(1, 2)

C12_AboveFullCase ==
    ttf_level > 100 /\ ttf_rate.num < 0 /\ IsRate(ttf_hours, 0)

PredictReturned == predict_pc = "done"

PredictionsOf(id) == {i \in DOMAIN predictions : predictions[i].bin_id = id}

LevelOf(id) == bins_table[id].waste_level

\* hours_to_full <= threshold_hours for the bin, with hours_to_full the time
\* to full that the call computed for it: 0 from level 100 up, otherwise
\* (100 - level) / fill rate.
HoursWithin(id) ==
    IF LevelOf(id) >= 100 THEN 0 <= threshold_hours
    ELSE (100 - LevelOf(id)) * get_fill_rate(id).den
             <= threshold_hours * get_fill_rate(id).num

\* C13: the priority of a prediction is decided by the first matching rule
\* of: level >= 90 critical; level >= 80 high; hours_to_full <=
\* threshold_hours medium; otherwise low.  A bin at level 90 or more is
\* critical whatever its fill rate.
C13_PriorityByFirstMatch ==
    PredictReturned =>
        \A i \in DOMAIN predictions :
            LET id == predictions[i].bin_id IN
            /\ LevelOf(id) >= 90 => predictions[i].priority = "critical"
            /\ (80 <= LevelOf(id) /\ LevelOf(id) < 90) =>
                   predictions[i].priority = "high"
            /\ (LevelOf(id) < 80 /\ HoursWithin(id)) =>
                   predictions[i].priority = "medium"
            /\ (LevelOf(id) < 80 /\ ~HoursWithin(id)) =>
                   predictions[i].priority = "low"

\* C13 witness: the returned list holds a critical bin and a high bin whose
\* hours_to_full are within the threshold, so that the medium rule matches
\* them as well, a medium bin and a low bin.
C13_Witness ==
    /\ PredictReturned
    /\ \E i \in DOMAIN predictions :
           /\ predictions[i].priority = "critical"
           /\ HoursWithin(predictions[i].bin_id)
    /\ \E i \in DOMAIN predictions :
           /\ predictions[i].priority = "high"
           /\ HoursWithin(predictions[i].bin_id)
    /\ \E i \in DOMAIN predictions : predictions[i].priority = "medium"
    /\ \E i \in DOMAIN predictions : predictions[i].priority = "low"

\* A further reachable case of C13: a critical bin whose hours_to_full are
\* beyond the threshold.
C13_SlowCriticalCase ==
    /\ PredictReturned
    /\ \E i \in DOMAIN predictions :
           /\ predictions[i].priority = "critical"
           /\ ~HoursWithin(predictions[i].bin_id)

IsActive(id) == bins_table[id].status = "active"

\* C14: an active bin has a prediction in the returned list exactly when its
\* level is 70 or more or its hours_to_full are within the threshold; a bin
\* that is not active has none; no bin has more than one, and every
\* prediction is of a stored bin.
C14_IncludedIffNeedsAttention ==
    PredictReturned =>
        /\ \A id \in DOMAIN bins_table :
               /\ Cardinality(PredictionsOf(id)) <= 1
               /\ IsActive(id) =>
                      (PredictionsOf(id) # {}
                          <=> (LevelOf(id) >= 70 \/ HoursWithin(id)))
               /\ ~IsActive(id) => PredictionsOf(id) = {}
        /\ \A i \in DOMAIN predictions :
               predictions[i].bin_id \in DOMAIN bins_table

\* C14 witness: the call left out an active bin below level 70 whose hours
\* are beyond the threshold and a bin at level 70 or more that is not
\* active, and returned a bin below level 70 whose hours are within it and a
\* bin from level 70 up whose hours are beyond it.
C14_Witness ==
    /\ PredictReturned
    /\ \E id \in DOMAIN bins_table :
           IsActive(id) /\ LevelOf(id) < 70 /\ ~HoursWithin(id)
           /\ PredictionsOf(id) = {}
    /\ \E id \in DOMAIN bins_table :
           ~IsActive(id) /\ LevelOf(id) >= 70 /\ PredictionsOf(id) = {}
    /\ \E id \in DOMAIN bins_table :
           LevelOf(id) < 70 /\ HoursWithin(id) /\ PredictionsOf(id) # {}
    /\ \E id \in DOMAIN bins_table :
           LevelOf(id) >= 70 /\ ~HoursWithin(id) /\ PredictionsOf(id) # {}

\* C15: needs_collection of a returned prediction is true exactly when the
\* bin's hours_to_full are within the threshold or its level is 80 or more.
C15_NeedsCollectionFlag ==
    PredictReturned =>
        \A i \in DOMAIN predictions :
            predictions[i].needs_collection
                <=> (HoursWithin(predictions[i].bin_id)
                     \/ LevelOf(predictions[i].bin_id) >= 80)

\* C15 witness: the returned list holds a prediction flagged by its hours
\* alone, one flagged by its level alone and one not flagged.
C15_Witness ==
    /\ PredictReturned
    /\ \E i \in DOMAIN predictions :
           /\ predictions[i].needs_collection
           /\ LevelOf(predictions[i].bin_id) < 80
    /\ \E i \in DOMAIN predictions :
           /\ predictions[i].needs_collection
           /\ ~HoursWithin(predictions[i].bin_id)
    /\ \E i \in DOMAIN predictions : ~predictions[i].needs_collection

\* A further reachable case of C15: the flag follows the hours as computed,
\* not the hours_to_full field, which is rounded to one decimal.  A bin at
\* level 75 filling at 2.075 percent per hour is 12.048 hours from full: not
\* flagged under a threshold of 12 although its field reads 12.0.
C15_RoundedFieldCase ==
    /\ PredictReturned
    /\ \E i \in DOMAIN predictions :
           /\ ~predictions[i].needs_collection
           /\ predictions[i].hours_to_full = 10 * threshold_hours
           /\ ~HoursWithin(predictions[i].bin_id)

\* Where get_all_bins supplied the bin of a prediction.
SuppliedPos(p) == CHOOSE k \in DOMAIN all_bins : all_bins[k].bin_id = p.bin_id

TierRank(p) ==
    CASE p.priority = "critical" -> 0
      [] p.priority = "high" -> 1
      [] p.priority = "medium" -> 2
      [] p.priority = "low" -> 3

\* C16: the returned list is ordered by tier (critical, high, medium, low)
\* and, within a tier, by descending current level; predictions equal on both
\* keys stand in the order in which their bins were supplied.
C16_SortedByTierThenLevel ==
    PredictReturned =>
        \A i, j \in DOMAIN predictions :
            i < j =>
                LET p == predictions[i]
                    q == predictions[j]
                IN  /\ TierRank(p) <= TierRank(q)
                    /\ TierRank(p) = TierRank(q) =>
                           p.current_level >= q.current_level
                    /\ (TierRank(p) = TierRank(q)
                        /\ p.current_level = q.current_level) =>
                           SuppliedPos(p) < SuppliedPos(q)

\* C16 witness: the returned list holds two predictions equal on both keys,
\* and a medium prediction ahead of a low one whose bin, of a higher level,
\* was supplied before it.
C16_Witness ==
    /\ PredictReturned
    /\ \E i, j \in DOMAIN predictions :
           /\ i < j
           /\ TierRank(predictions[i]) = TierRank(predictions[j])
           /\ predictions[i].current_level = predictions[j].current_level
    /\ \E i, j \in DOMAIN predictions :
           /\ i < j
           /\ predictions[i].priority = "medium"
           /\ predictions[j].priority = "low"
           /\ SuppliedPos(predictions[j]) < SuppliedPos(predictions[i])

-----------------------------------------------------------------------------
(* Further properties of optimize_route.                                   *)

\* The stored row of the bin has a coordinate or a waste level that is not a
\* number.
InvalidBin(id) ==
    /\ HasRow(id)
    /\ \/ get_bin_by_id(id).latitude = MALFORMED
       \/ get_bin_by_id(id).longitude = MALFORMED
       \/ get_bin_by_id(id).waste_level \in {NULL, MALFORMED}

\* C17: a call that requests a bin with a malformed coordinate or a
\* non-numeric waste level never ends in an exception: it returns, and what
\* it returns carries a validation error.
C17_InvalidBinReportedAsValue ==
    (pc # "idle" /\ \E id \in Range(bin_ids) : InvalidBin(id)) =>
        /\ pc # "raised"
        /\ Returned => "error" \in DOMAIN result

\* Distance between two stops of the returned route.
StopDistance(i, k) ==
    calculate_distance(result.bins[i].latitude, result.bins[i].longitude,
                       result.bins[k].latitude, result.bins[k].longitude)

\* Every kept bin has the same priority score.
SamePriority ==
    \A i, k \in DOMAIN result.bins :
        get_bin_priority_score(result.bins[i].waste_level)
            = get_bin_priority_score(result.bins[k].waste_level)

\* C18: when all kept bins have the same priority score, every stop after
\* the first is at minimum distance from the previous stop among the bins not
\* visited before it; with a start location the first stop is the bin
\* nearest to that location.
C18_EqualPriorityNearestNeighbour ==
    (Returned /\ result.bins # <<>> /\ SamePriority) =>
        /\ \A i \in 2..Len(result.bins) :
               \A k \in i..Len(result.bins) :
                   StopDistance(i - 1, i) <= StopDistance(i - 1, k)
        /\ start_location # <<>> =>
               \A k \in DOMAIN result.bins :
                   calculate_distance(start_location[1], start_location[2],
                                      result.bins[1].latitude,
                                      result.bins[1].longitude)
                       <= calculate_distance(start_location[1], start_location[2],
                                             result.bins[k].latitude,
                                             result.bins[k].longitude)

\* C18 witness: three distinct bins of one priority score were requested and
\* the returned route visits them in an order that is neither the requested
\* one nor by descending waste level.
C18_Witness ==
    /\ Returned
    /\ Len(result.bins) = 3
    /\ Distinct(bin_ids)
    /\ SamePriority
    /\ \E i \in DOMAIN result.bins : result.bins[i].bin_id # bin_ids[i]
    /\ \E i \in 1..2 :
           result.bins[i].waste_level < result.bins[i + 1].waste_level

\* C19: a call of optimize_route that has entered its loop returns; every
\* iteration appends one stop, removes exactly one bin from the remaining
\* pool and leaves the stops appended before it as they were; the loop runs
\* one iteration per kept bin.
C19_SinglePassTerminates ==
    /\ (pc = "loop") ~> (pc = "done")
    /\ [][pc = "loop" =>
            /\ Len(optimized_route) <= Len(optimized_route')
            /\ SubSeq(optimized_route', 1, Len(optimized_route)) = optimized_route
            /\ Len(optimized_route') + Len(remaining_bins')
                   = Len(optimized_route) + Len(remaining_bins)
            /\ Len(optimized_route') <= Len(optimized_route) + 1]_vars
    /\ [](Returned /\ bins # <<>> =>
            /\ Len(optimized_route) = Len(bins)
            /\ result.bins = optimized_route)

\* C19 witness: a call that requested the same bin twice among three kept
\* bins has returned after three iterations.
C19_Witness ==
    /\ Returned
    /\ Len(bins) = 3
    /\ ~Distinct(bin_ids)
    /\ Len(result.bins) = 3

-----------------------------------------------------------------------------
(* The frame of the prediction and routing operations.                     *)

\* The step belongs to a call of get_fill_rate,
\* predict_bins_needing_collection, get_optimal_collection_bins,
\* optimize_route, optimize_route_by_zone or create_daily_routes.
OperationStep ==
    \/ route_vars' # route_vars
    \/ fill_pc' # fill_pc
    \/ predict_pc' # predict_pc
    \/ zone_pc' # zone_pc

\* C20: no step of a prediction or routing operation changes the stored
\* data: the bins table (every bin's waste level and status), the sensor
\* logs, the alerts and the stored routes are after it what they were before.
C20_OperationsLeaveStoredData ==
    [][OperationStep =>
          /\ bins_table' = bins_table
          /\ sensor_logs' = sensor_logs
          /\ alerts' = alerts
          /\ routes' = routes]_vars

\* C20 witness: get_optimal_collection_bins has returned bins to collect
\* while a sensor reading, the alert it raised and a stored route are in the
\* tables.
C20_Witness ==
    /\ predict_pc = "done"
    /\ bins_to_collect # <<>>
    /\ sensor_logs # <<>>
    /\ alerts # <<>>
    /\ routes # <<>>

\* Further reachable cases of C20: each of the other operations has returned
\* over tables the writers have changed.
C20_FillRateCase == fill_pc = "done" /\ alerts # <<>> /\ routes # <<>>

C20_RouteCase ==
    pc = "done" /\ Len(result.bins) = 2 /\ alerts # <<>> /\ routes # <<>>

C20_ZoneCase == zone_pc = "done" /\ alerts # <<>> /\ routes # <<>>

-----------------------------------------------------------------------------
(* Numbering of the stops.                                                 *)

\* C21: in every non-empty route returned by optimize_route the stop at
\* position i has sequence i, total_bins is the number of stops, and every
\* stop's distance_from_previous is at least 0.
C21_StopsNumberedInOrder ==
    Returned /\ result.bins # <<>> =>
        /\ result.total_bins = Len(result.bins)
        /\ \A i \in DOMAIN result.bins :
               /\ result.bins[i].sequence = i
               /\ result.bins[i].distance_from_previous >= 0

\* C21 witness: a returned route of three stops, one of them away from the
\* stop before it and one a bin requested twice.
C21_Witness ==
    /\ Returned
    /\ Len(result.bins) = 3
    /\ result.bins[3].sequence = 3
    /\ ~Distinct(bin_ids)
    /\ \E i \in DOMAIN result.bins :
           result.bins[i].distance_from_previous > 0

-----------------------------------------------------------------------------
(* The simulator tick.                                                     *)

\* The tick has returned and nothing was collected since it began.
TickReturned ==
    sim_pc = "done" /\ Len(collection_logs) = sim_start.collections

\* Sensor logs of the bin appended since the tick began.
NewLogs(id) ==
    {i \in (sim_start.logs + 1)..Len(sensor_logs) : sensor_logs[i].bin_id = id}

ActiveAtStart(id) == sim_start.bins[id].status = "active"

LevelAtStart(id) == sim_start.bins[id].waste_level

\* The tick logged the bin once, with the level the bin now has.
LoggedOnce(id) ==
    /\ Cardinality(NewLogs(id)) = 1
    /\ \A i \in NewLogs(id) :
           sensor_logs[i].waste_level = bins_table[id].waste_level

\* The tick left the bin alone.
LeftAlone(id) ==
    /\ bins_table[id].waste_level = LevelAtStart(id)
    /\ NewLogs(id) = {}

\* C22 as stated: after one tick of update_all_bins every active bin has a
\* level different from the one it had, and exactly one new sensor log whose
\* waste level is the bin's new stored level; a bin that is not active keeps
\* its level and gets no sensor log.
C22_TickChangesEveryActiveBin ==
    TickReturned =>
        \A id \in DOMAIN bins_table :
            IF ActiveAtStart(id)
            THEN LoggedOnce(id) /\ bins_table[id].waste_level # LevelAtStart(id)
            ELSE LeftAlone(id)

\* C22 amended: after one tick of update_all_bins every active bin has been
\* stored and logged once, the one new sensor log carrying the bin's stored
\* level, which is the old level when the step was absorbed at 0 or 100; a
\* bin that is not active keeps its level and gets no sensor log.
C22_TickLogsEveryActiveBin ==
    TickReturned =>
        \A id \in DOMAIN bins_table :
            IF ActiveAtStart(id)
            THEN /\ LoggedOnce(id)
                 /\ bins_table[id].waste_level = LevelAtStart(id)
                        => LevelAtStart(id) \in {0, 100}
            ELSE LeftAlone(id)

\* C22 witness: a second tick has returned; it moved one active bin, left a
\* full active bin at 100 and passed over a bin that is not active.
C22_Witness ==
    /\ TickReturned
    /\ sim_start.logs > 0
    /\ \E id \in DOMAIN bins_table :
           ActiveAtStart(id) /\ bins_table[id].waste_level # LevelAtStart(id)
    /\ \E id \in DOMAIN bins_table :
           /\ ActiveAtStart(id)
           /\ LevelAtStart(id) = 100
           /\ bins_table[id].waste_level = 100
           /\ Cardinality(NewLogs(id)) = 1
    /\ \E id \in DOMAIN bins_table : ~ActiveAtStart(id) /\ LeftAlone(id)

-----------------------------------------------------------------------------
(* Access to the web handlers.                                             *)

LoggedIn == "user_id" \in DOMAIN session

\* The session holds a role and the role is one of roles.
HoldsRole(roles) == "role" \in DOMAIN session /\ session["role"] \in roles

\* The handlers of the model behind login_required and role_required, with
\* the roles their decorators name (app.py lines 159, 308 and 465).
GatedRoles ==
    [admin_dashboard |-> {"admin"},
     api_update_bin_level |-> {"admin", "staff"},
     api_create_report |-> {"citizen"}]

RedirectedToLogin ==
    response' = Response("redirect", 302, "none", "login")

Unauthorized ==
    response' = Response("json", 403, "none", "Unauthorized access")

StoredDataKept ==
    /\ web_stored' = web_stored
    /\ stored' = stored
    /\ collection_logs' = collection_logs

\* C23: the body of a handler behind login_required and role_required(roles)
\* runs only for a session with a user_id and a role in roles; without a
\* user_id the request is redirected to the login page, with a user_id and a
\* role outside roles it is answered 403 'Unauthorized access', and in both
\* cases the body does not run and no stored data changes.
C23_GatedHandlerNeedsRole ==
    [][request'.endpoint \in DOMAIN GatedRoles =>
          LET roles == GatedRoles[request'.endpoint] IN
          /\ response'.handler = request'.endpoint
                 => LoggedIn /\ HoldsRole(roles)
          /\ ~LoggedIn =>
                 /\ RedirectedToLogin
                 /\ StoredDataKept
                 /\ session' = session
          /\ LoggedIn /\ ~HoldsRole(roles) =>
                 /\ Unauthorized
                 /\ StoredDataKept
                 /\ session' = session]_vars

\* C23 witness: a citizen's request to update a bin level was answered 403
\* after a permitted update had raised an alert.
C23_Witness ==
    /\ request.endpoint = "api_update_bin_level"
    /\ response = Response("json", 403, "none", "Unauthorized access")
    /\ LoggedIn
    /\ session["role"] = "citizen"
    /\ alerts # <<>>

\* Further reachable cases of C23: a request after logout is redirected, and
\* a staff member's update runs.
C23_RedirectCase ==
    /\ request.endpoint = "api_create_report"
    /\ response = Response("redirect", 302, "none", "login")
    /\ ~LoggedIn
    /\ users[3].last_login # NULL

C23_RunsCase ==
    /\ request.endpoint = "api_update_bin_level"
    /\ response.handler = "api_update_bin_level"
    /\ LoggedIn
    /\ session["role"] = "staff"

-----------------------------------------------------------------------------
(* Priority and the needs_collection flag.                                 *)

\* C24 as stated: in the list predict_bins_needing_collection returned,
\* needs_collection is false exactly for the predictions of priority low,
\* and every prediction of priority low has current_level in [70, 80) and a
\* hours_to_full field greater than threshold_hours.
C24_LowIffNotFlagged ==
    PredictReturned =>
        \A i \in DOMAIN predictions :
            /\ ~predictions[i].needs_collection
                   <=> predictions[i].priority = "low"
            /\ predictions[i].priority = "low" =>
                   /\ predictions[i].current_level >= 70
                   /\ predictions[i].current_level < 80
                   /\ predictions[i].hours_to_full > 10 * threshold_hours

\* C24 amended: needs_collection is false exactly for the predictions of
\* priority low, and every prediction of priority low has current_level in
\* [70, 80) and a time to full, as computed, greater than threshold_hours;
\* its hours_to_full field, rounded to one decimal, is threshold_hours or
\* more.
C24_LowIffNotFlaggedComputedHours ==
    PredictReturned =>
        \A i \in DOMAIN predictions :
            /\ ~predictions[i].needs_collection
                   <=> predictions[i].priority = "low"
            /\ predictions[i].priority = "low" =>
                   /\ predictions[i].current_level >= 70
                   /\ predictions[i].current_level < 80
                   /\ ~HoursWithin(predictions[i].bin_id)
                   /\ predictions[i].hours_to_full >= 10 * threshold_hours

\* C24 witness: the returned list holds a prediction of priority low whose
\* hours_to_full field equals the threshold, beside a flagged prediction of
\* each other priority.
C24_Witness ==
    /\ PredictReturned
    /\ \E i \in DOMAIN predictions :
           /\ predictions[i].priority = "low"
           /\ ~predictions[i].needs_collection
           /\ predictions[i].hours_to_full = 10 * threshold_hours
    /\ \A tier \in {"critical", "high", "medium"} :
           \E i \in DOMAIN predictions :
               predictions[i].priority = tier /\ predictions[i].needs_collection

-----------------------------------------------------------------------------
(* The bins chosen for collection.                                         *)

CollectReturned == predict_pc = "done" /\ collect_max_bins # NULL

\* Number of predictions that need collection.
FlaggedCount ==
    Cardinality({i \in DOMAIN predictions : predictions[i].needs_collection})

\* C25: get_optimal_collection_bins(max_bins) returns at most max_bins
\* predictions, each with needs_collection true, and they are the first
\* min(max_bins, k) entries, in order, of what
\* predict_bins_needing_collection(24) returns, k being the number of its
\* predictions with needs_collection true.
C25_CollectIsFlaggedPrefix ==
    CollectReturned =>
        /\ threshold_hours = 24
        /\ Len(bins_to_collect) <= collect_max_bins
        /\ \A i \in DOMAIN bins_to_collect : bins_to_collect[i].needs_collection
        /\ Len(bins_to_collect) = Min(collect_max_bins, FlaggedCount)
        /\ bins_to_collect = SubSeq(predictions, 1, Len(bins_to_collect))

\* C25 witness: three bins were asked for where more than three need
\* collection and the predictions end with one that does not.
C25_Witness ==
    /\ CollectReturned
    /\ collect_max_bins = 3
    /\ Len(bins_to_collect) = 3
    /\ FlaggedCount > 3
    /\ ~predictions[Len(predictions)].needs_collection

\* A further reachable case of C25: the limit is above the number of
\* predictions that need collection, and all of them are returned.
C25_AllReturnedCase ==
    /\ CollectReturned
    /\ FlaggedCount > 0
    /\ collect_max_bins > FlaggedCount
    /\ Len(bins_to_collect) = FlaggedCount
    /\ Len(predictions) > FlaggedCount

-----------------------------------------------------------------------------
(* Routes by zone.                                                         *)

ZoneReturned(call) == zone_pc = "done" /\ zone_args.call = call

\* Every stop of the route is an active bin of the zone at level 60 or more,
\* and there are at most max stops.
StopsOfZone(route, zone, max) ==
    /\ Len(route.bins) <= max
    /\ \A i \in DOMAIN route.bins :
           LET id == route.bins[i].bin_id IN
           /\ HasRow(id)
           /\ bins_table[id].zone = zone
           /\ bins_table[id].status = "active"
           /\ bins_table[id].waste_level >= 60

StopIds(route) == {route.bins[i].bin_id : i \in DOMAIN route.bins}

C26_CutCase ==
    /\ ZoneReturned("optimize_route_by_zone")
    /\ Len(zone_result.bins) = zone_args.max_bins
    /\ Cardinality(ZoneBins(zone_args.zones[1])) > zone_args.max_bins
    /\ zone_args.max_bins > 0

C26_EmptyZoneCase ==
    /\ ZoneReturned("create_daily_routes")
    /\ Len(zone_result) = 1
    /\ Len(zone_args.zones) = 2
    /\ Distinct(zone_args.zones)

C26_RepeatedZoneCase ==
    /\ ZoneReturned("create_daily_routes")
    /\ Len(zone_result) = 2
    /\ zone_result[1].zone = zone_result[2].zone

-----------------------------------------------------------------------------
(* Full-bin alerts.                                                        *)

\* The step ran Bin.update_waste_level for the bin and level of the request
\* to api_update_bin_level.
LevelUpdated ==
    /\ request'.endpoint = "api_update_bin_level"
    /\ response'.handler = "api_update_bin_level"

\* C27: Bin.update_waste_level adds exactly one alert, of type full_bin and
\* status active, when the new level is 80 or more and the bin has a row,
\* with severity critical from 90 and warning below; it adds none when the
\* level is below 80; the alerts there were stay as they are.
C27_OneAlertFromEighty ==
    [][LevelUpdated =>
          LET bin_id == request'.args[1]
              waste_level == request'.args[2]
          IN  IF waste_level >= 80 /\ HasRow(bin_id)
              THEN /\ Len(alerts') = Len(alerts) + 1
                   /\ SubSeq(alerts', 1, Len(alerts)) = alerts
                   /\ alerts'[Len(alerts')] =
                          [bin_id |-> bin_id, alert_type |-> "full_bin",
                           severity |-> IF waste_level >= 90 THEN "critical"
                                        ELSE "warning",
                           status |-> "active"]
              ELSE waste_level < 80 => alerts' = alerts]_vars

\* C27 witness: an update to level 80 raised a warning and a later update to
\* level 90 a critical alert behind it.
C27_Witness ==
    /\ request = [endpoint |-> "api_update_bin_level", args |-> <<1, 90>>]
    /\ response.handler = "api_update_bin_level"
    /\ Len(alerts) = 2
    /\ alerts[1].severity = "warning"
    /\ alerts[2].severity = "critical"
    /\ bins_table[1].waste_level = 90

\* Further reachable cases of C27: an update to level 79 adds no alert to
\* the one there is; an update of a bin without a row adds none either.
C27_BelowEightyCase ==
    /\ request = [endpoint |-> "api_update_bin_level", args |-> <<1, 79>>]
    /\ response.handler = "api_update_bin_level"
    /\ Len(alerts) = 1
    /\ bins_table[1].waste_level = 79

C27_NoRowCase ==
    /\ request = [endpoint |-> "api_update_bin_level", args |-> <<9, 90>>]
    /\ response.handler = "api_update_bin_level"
    /\ alerts = <<>>

-----------------------------------------------------------------------------
(* The range of the stored levels.                                         *)

InRange(level) == level >= 0 /\ level <= 100

\* The level of the bin is one the simulator found, not one it stored.
FoundAtStart(id) == \E table \in SimTables : bins_table[id] = table[id]

\* The step is a simulated collection.
Collected == Len(collection_logs') = Len(collection_logs) + 1

\* C28: through simulator ticks and simulated collections every stored
\* level the simulator wrote lies in [0, 100], and a bin in that range
\* stays in it; a tick stores and logs a level in [0, 100] whatever the
\* level before and the random step; a simulated collection stores a level
\* in [2, 8] and adds no alert.
C28_StoredLevelsInRange ==
    /\ [](\A id \in DOMAIN bins_table :
              InRange(bins_table[id].waste_level) \/ FoundAtStart(id))
    /\ [][/\ \A id \in DOMAIN bins_table :
                 /\ InRange(bins_table[id].waste_level)
                        => InRange(bins_table'[id].waste_level)
                 /\ bins_table'[id].waste_level # bins_table[id].waste_level
                        => InRange(bins_table'[id].waste_level)
          /\ Len(sensor_logs') > Len(sensor_logs) =>
                 LET log == sensor_logs'[Len(sensor_logs')] IN
                 /\ InRange(log.waste_level)
                 /\ bins_table'[log.bin_id].waste_level = log.waste_level
          /\ Collected =>
                 LET row == collection_logs'[Len(collection_logs')] IN
                 /\ bins_table'[row.bin_id].waste_level = row.after_level
                 /\ row.after_level >= 2
                 /\ row.after_level <= 8
                 /\ alerts' = alerts]_vars

\* C28 witness: a tick has brought a bin found at 103 to 100 and a bin found
\* below 0 to 0, and a bin at 80 or more has been collected.
C28_Witness ==
    /\ sim_pc = "done"
    /\ sim_start.bins[1].waste_level = 103
    /\ bins_table[1].waste_level = 100
    /\ sim_start.bins[2].waste_level < 0
    /\ bins_table[2].waste_level = 0
    /\ collection_logs # <<>>
    /\ collection_logs[1].before_level >= 80
    /\ bins_table[collection_logs[1].bin_id].waste_level <= 8

-----------------------------------------------------------------------------
(* Who sees which reports.                                                 *)

\* The step answered GET /api/reports from its handler.
ReportsAnswered ==
    /\ request'.endpoint = "api_get_reports"
    /\ response'.handler = "api_get_reports"

\* C29: to a logged-in session of role citizen, GET /api/reports returns
\* only reports whose citizen_id is the session's user_id, and all of them,
\* whatever the other citizens reported and whatever the status parameter;
\* a session of another role gets the reports of every citizen, filtered by
\* the status parameter when there is one.
C29_CitizenSeesOwnReports ==
    [][ReportsAnswered =>
          IF session["role"] = "citizen"
          THEN /\ \A r \in response'.body : r.citizen_id = session["user_id"]
               /\ \A i \in DOMAIN waste_reports :
                      waste_reports[i].citizen_id = session["user_id"]
                          => waste_reports[i] \in response'.body
          ELSE \A i \in DOMAIN waste_reports :
                   waste_reports[i] \in response'.body
                       <=> \/ request'.args[1] = ""
                           \/ waste_reports[i].status = request'.args[1]]_vars

\* C29 witness: a citizen who has reported twice asked for the resolved
\* reports and got two reports, while another citizen's resolved report is
\* stored.
C29_Witness ==
    /\ request = [endpoint |-> "api_get_reports", args |-> <<"resolved">>]
    /\ response.handler = "api_get_reports"
    /\ LoggedIn
    /\ session["role"] = "citizen"
    /\ Cardinality(response.body) = 2
    /\ \E i \in DOMAIN waste_reports :
           /\ waste_reports[i].citizen_id # session["user_id"]
           /\ waste_reports[i].status = "resolved"

\* A further reachable case of C29: a staff member got the reports of two
\* citizens.
C29_StaffCase ==
    /\ request.endpoint = "api_get_reports"
    /\ response.handler = "api_get_reports"
    /\ LoggedIn
    /\ session["role"] = "staff"
    /\ Cardinality({r.citizen_id : r \in response.body}) = 2

-----------------------------------------------------------------------------
(* The life of a session.                                                  *)

\* The users whose stored credentials are those of the POST /login request
\* and whose account is active.
MatchingUsers ==
    IF request'.endpoint = "login" /\ Len(request'.args) = 2
    THEN {i \in DOMAIN users :
             /\ users[i].username = request'.args[1]
             /\ users[i].password = request'.args[2]
             /\ users[i].status = "active"}
    ELSE {}

\* The endpoints of the model behind login_required.
LoginProtected == DOMAIN GatedRoles \cup {"api_get_reports"}

\* C30: over logins, logouts and requests on one session, the session comes
\* to hold a user_id and role only by a login whose credentials are those of
\* an active user, whose user_id and role it then holds; a failed login
\* leaves the session as it was; a logout empties the session; and while the
\* session is empty every login-protected request is redirected to the
\* login page and leaves it empty, so that only a successful login ends the
\* redirects.
C30_SessionFollowsLogin ==
    [][/\ session' # session /\ session' # NoSession =>
              \E i \in MatchingUsers :
                  /\ session'["user_id"] = users[i].user_id
                  /\ session'["role"] = users[i].role
       /\ request'.endpoint = "login" /\ MatchingUsers = {} =>
              session' = session
       /\ request'.endpoint = "logout" => session' = NoSession
       /\ session = NoSession /\ request'.endpoint \in LoginProtected =>
              /\ RedirectedToLogin
              /\ session' = NoSession
       /\ session = NoSession /\ session' # NoSession =>
              request'.endpoint = "login" /\ MatchingUsers # {}]_vars

\* C30 witness: after a login and a logout a login-protected request was
\* redirected to the login page.
C30_Witness ==
    /\ session = NoSession
    /\ request.endpoint = "api_get_reports"
    /\ response = Response("redirect", 302, "none", "login")
    /\ \E i \in DOMAIN users : users[i].last_login # NULL

\* Further reachable cases of C30: a failed login on a session that is
\* logged in; a login with the credentials of an account that is not active;
\* a second login after a logout.
C30_FailedLoginCase ==
    /\ request = [endpoint |-> "login", args |-> <<"cara", "pd">>]
    /\ response.status = 401
    /\ LoggedIn
    /\ session["role"] = "admin"

C30_InactiveCase ==
    /\ request = [endpoint |-> "login", args |-> <<"ina", "pi">>]
    /\ response.status = 401
    /\ session = NoSession

C30_LoginAgainCase ==
    /\ request.endpoint = "api_get_reports"
    /\ response.handler = "api_get_reports"
    /\ LoggedIn
    /\ Cardinality({i \in DOMAIN users : users[i].last_login # NULL}) = 2

====
